---- MODULE Spec2Model ----
(***************************************************************************)
(* Persistence layer of ReMinder's gin-server: the Database / Collection   *)
(* contract of internal/db, implemented over SQLite (sqlite.go) and over   *)
(* Firestore (firestore.go), selected by NewDBManager (db.go).             *)
(*                                                                         *)
(* Go values are tagged pairs <<kind, payload>> with string payloads, so   *)
(* that values of different Go types stay comparable:                      *)
(*   <<"string","alice">>  <<"bool","true">>  <<"time","t1">>  <<"int","3">>*)
(* The zero values are <<"string","">>, <<"bool","false">>, <<"time","0">>  *)
(* and <<"int","0">>.  SQL values are tagged the same way with the storage *)
(* classes "text", "integer", "timestamp" (text holding a formatted time)  *)
(* and "null".                                                             *)
(***************************************************************************)
EXTENDS Integers, Sequences, FiniteSets, TLC

VARIABLES
    dbType,     \* the kind of Database the manager holds, "none" when construction failed
    conn,       \* SQLiteDatabase.conn / FirestoreDatabase.client: "nil", "open", "closed"
    fkOn,       \* whether the pooled connection serving calls has PRAGMA foreign_keys = ON
    tables,     \* rows of users, reminder_groups, reminders (in rowid order)
    docs,       \* documents of the Firestore collection, by document id
    last,       \* the last Collection call: its arguments and what it returned
    calls,      \* concurrent callers of the relational backend: request, position, result
    free,       \* idle connections of the *sql.DB pool: whether each enforces foreign keys
    limit,      \* rateLimiterMiddleware.limit
    window,     \* rateLimiterMiddleware.window, in clock ticks
    clients,    \* rateLimiterMiddleware.clients: timestamps recorded per client IP
    clock,      \* time.Now(), in ticks
    mu,         \* rateLimiterMiddleware.mu: the request holding it, 0 when unlocked
    reqs        \* the HTTP requests: client IP, position, response status

dbVars == <<dbType, conn, fkOn, tables, docs, last>>

concVars == <<calls, free>>

rlVars == <<limit, window, clients, clock, mu, reqs>>

vars == <<dbVars, concVars, rlVars>>

(***************************************************************************)
(* Bounds of the model.                                                    *)
(***************************************************************************)
MaxRows == 3        \* rows the three tables may hold together
MaxDocs == 2        \* documents the collection may hold

(***************************************************************************)
(* The contexts a call is made with: context.Background(), and a context   *)
(* whose deadline has elapsed (or that was cancelled) before the call.     *)
(***************************************************************************)
Background == "background"

Expired == "expired"

Contexts == {Background, Expired}

(***************************************************************************)
(* Error taxonomy (db.go:13-26).  "OK" is a nil error; "Untyped" is an     *)
(* error value that wraps none of the sentinels.                           *)
(***************************************************************************)
ErrDatabaseConnection == "ConnectionFailure"
ErrNotFound == "NotFound"
ErrDuplicate == "Duplicate"
ErrInvalidInput == "InvalidInput"
ErrInternal == "Internal"
Untyped == "Untyped"
Panic == "panic"        \* the call does not return: nil pointer dereference
OK == "OK"

Taxonomy == {ErrDatabaseConnection, ErrNotFound, ErrDuplicate, ErrInvalidInput, ErrInternal}

SQLite == "sqlite"
Firestore == "firestore"

(***************************************************************************)
(* Go values.                                                              *)
(***************************************************************************)
GoStr(s) == <<"string", s>>
GoBool(b) == <<"bool", b>>
GoTime(t) == <<"time", t>>
GoInt(n) == <<"int", n>>

ZeroOf(kind) ==
    CASE kind = "string" -> GoStr("")
      [] kind = "bool" -> GoBool("false")
      [] kind = "time" -> GoTime("0")
      [] kind = "int" -> GoInt("0")

\* sqlite.go:522-524
isZeroOfUnderlyingType(x) == x = ZeroOf(x[1])

(***************************************************************************)
(* Record types crossing the Collection contract: the structs of the       *)
(* relational tests (TestUser, TestReminder, TestReminderGroup), a struct  *)
(* without an updated-at field, and the Firestore test struct.  Each field *)
(* is [name, tag, kind, omitempty]; tag is the db tag on the relational    *)
(* structs and the firestore tag on the document struct.                   *)
(***************************************************************************)
Fd(n, t, k) == [name |-> n, tag |-> t, kind |-> k, omitempty |-> FALSE]
FdOmit(n, t, k) == [name |-> n, tag |-> t, kind |-> k, omitempty |-> TRUE]

TestUserFields ==
    << Fd("ID", "id", "string"), Fd("Username", "username", "string"),
       Fd("Email", "email", "string"), Fd("Password", "password", "string"),
       Fd("Role", "role", "string"), Fd("CreatedAt", "created_at", "time"),
       Fd("UpdatedAt", "updated_at", "time"), Fd("Active", "active", "bool") >>

TestReminderFields ==
    << Fd("ID", "id", "string"), Fd("Title", "title", "string"),
       Fd("Description", "description", "string"), Fd("IsPinned", "is_pinned", "bool"),
       Fd("UserID", "user_id", "string"), Fd("ReminderGroupID", "reminder_group_id", "string"),
       Fd("CreatedAt", "created_at", "time"), Fd("UpdatedAt", "updated_at", "time") >>

TestReminderGroupFields ==
    << Fd("ID", "id", "string"), Fd("Name", "name", "string"),
       Fd("UserID", "user_id", "string"), Fd("CreatedAt", "created_at", "time"),
       Fd("UpdatedAt", "updated_at", "time") >>

\* a record type that declares no updated-at field
RolePatchFields == << Fd("ID", "id", "string"), Fd("Role", "role", "string") >>

\* domain.User: the db and the firestore tag of every field are the same label
UserFields ==
    << Fd("ID", "id", "string"), Fd("Username", "username", "string"),
       Fd("Password", "password", "string"), Fd("Role", "role", "string"),
       Fd("Email", "email", "string"), Fd("CreatedAt", "created_at", "time"),
       Fd("UpdatedAt", "updated_at", "time") >>

TestItemFields ==
    << Fd("ID", "-", "string"), Fd("Name", "name", "string"),
       Fd("Value", "value", "int"), FdOmit("Description", "description", "string") >>

StructTypes == {"TestUser", "TestReminder", "TestReminderGroup", "RolePatch", "TestItem", "User"}

FieldsOf(type) ==
    CASE type = "TestUser" -> TestUserFields
      [] type = "TestReminder" -> TestReminderFields
      [] type = "TestReminderGroup" -> TestReminderGroupFields
      [] type = "RolePatch" -> RolePatchFields
      [] type = "TestItem" -> TestItemFields
      [] type = "User" -> UserFields
      [] OTHER -> << >>

\* reflect.Value.Kind() == reflect.Struct, after dereferencing a pointer
IsStruct(data) == data.type \in StructTypes

\* the zero value of a struct type ("var found TestUser")
Fresh(type) ==
    [type |-> type,
     f |-> [n \in {FieldsOf(type)[i].name : i \in 1..Len(FieldsOf(type))} |->
              LET i == CHOOSE j \in 1..Len(FieldsOf(type)) : FieldsOf(type)[j].name = n
              IN ZeroOf(FieldsOf(type)[i].kind)]]

\* a Go value that is not a struct (Create(ctx, "not a struct"))
NotAStruct == [type |-> "string", f |-> [ID |-> GoStr("not a struct")]]

\* field.Tag.Get("db"), else camelToSnake(field.Name); every modelled struct tags every field
columnName(fd) == fd.tag

Range(s) == {s[i] : i \in 1..Len(s)}

(***************************************************************************)
(* The relational schema provisioned by Migrate (sqlite.go:171-203).       *)
(* A column is [name, decl, notnull, unique, default].                     *)
(***************************************************************************)
Null == <<"null", "">>
Text(s) == <<"text", s>>
Integer(n) == <<"integer", n>>
Timestamp(t) == <<"timestamp", t>>

\* the value of CURRENT_TIMESTAMP and of time.Now().UTC() during a call
Now == "now"

Col(n, d, nn, u, def) == [name |-> n, decl |-> d, notnull |-> nn, unique |-> u, default |-> def]

UsersSchema ==
    << Col("id", "TEXT", FALSE, TRUE, Null),
       Col("username", "TEXT", TRUE, TRUE, Null),
       Col("email", "TEXT", TRUE, TRUE, Null),
       Col("password", "TEXT", TRUE, FALSE, Null),
       Col("role", "TEXT", TRUE, FALSE, Text("user")),
       Col("created_at", "TIMESTAMP", FALSE, FALSE, Timestamp(Now)),
       Col("updated_at", "TIMESTAMP", FALSE, FALSE, Timestamp(Now)) >>

ReminderGroupsSchema ==
    << Col("id", "TEXT", FALSE, TRUE, Null),
       Col("name", "TEXT", TRUE, FALSE, Null),
       Col("user_id", "TEXT", TRUE, FALSE, Null),
       Col("created_at", "TIMESTAMP", FALSE, FALSE, Timestamp(Now)),
       Col("updated_at", "TIMESTAMP", FALSE, FALSE, Timestamp(Now)) >>

RemindersSchema ==
    << Col("id", "TEXT", FALSE, TRUE, Null),
       Col("title", "TEXT", TRUE, FALSE, Null),
       Col("description", "TEXT", FALSE, FALSE, Null),
       Col("is_pinned", "BOOLEAN", FALSE, FALSE, Integer("0")),
       Col("user_id", "TEXT", TRUE, FALSE, Null),
       Col("reminder_group_id", "TEXT", FALSE, FALSE, Null),
       Col("created_at", "TIMESTAMP", FALSE, FALSE, Timestamp(Now)),
       Col("updated_at", "TIMESTAMP", FALSE, FALSE, Timestamp(Now)) >>

TableNames == {"users", "reminder_groups", "reminders"}

Schema(table) ==
    CASE table = "users" -> UsersSchema
      [] table = "reminder_groups" -> ReminderGroupsSchema
      [] table = "reminders" -> RemindersSchema

ColumnNames(table) == {Schema(table)[i].name : i \in 1..Len(Schema(table))}

ColumnOf(table, c) == Schema(table)[CHOOSE i \in 1..Len(Schema(table)) : Schema(table)[i].name = c]

\* FOREIGN KEY (col) REFERENCES parent(id) ON DELETE action
ForeignKeys(table) ==
    CASE table = "users" -> {}
      [] table = "reminder_groups" ->
            {[col |-> "user_id", parent |-> "users", onDelete |-> "CASCADE"]}
      [] table = "reminders" ->
            {[col |-> "user_id", parent |-> "users", onDelete |-> "CASCADE"],
             [col |-> "reminder_group_id", parent |-> "reminder_groups", onDelete |-> "SET NULL"]}

\* the database file before any CREATE TABLE has run on it
NoTables == [sqlite_master |-> << >>]

\* the three CREATE TABLE statements of Migrate have run on the file
Migrated(tbls) == DOMAIN tbls = TableNames

TotalRows(tbls) ==
    IF Migrated(tbls) THEN Len(tbls.users) + Len(tbls.reminder_groups) + Len(tbls.reminders)
    ELSE 0

EmptyTables == [users |-> << >>, reminder_groups |-> << >>, reminders |-> << >>]

(***************************************************************************)
(* The driver's value conversions at the ExecContext / QueryContext /      *)
(* rows.Scan calls: a Go argument becomes an SQL value, and a column read  *)
(* into an interface{} becomes a Go value whose dynamic type follows the   *)
(* column's declared type.                                                 *)
(***************************************************************************)
Bind(v) ==
    CASE v[1] = "string" -> Text(v[2])
      [] v[1] = "bool" -> Integer(IF v[2] = "true" THEN "1" ELSE "0")
      [] v[1] = "time" -> Timestamp(v[2])
      [] v[1] = "int" -> Integer(v[2])

\* dynamic types: "nil", "string", "int64", "bool", "time.Time"
ScanValue(decl, sv) ==
    CASE sv = Null -> <<"nil", "">>
      [] sv[1] = "text" -> <<"string", sv[2]>>
      [] sv[1] = "integer" /\ decl = "BOOLEAN" -> <<"bool", IF sv[2] = "0" THEN "false" ELSE "true">>
      [] sv[1] = "integer" /\ decl # "BOOLEAN" -> <<"int64", sv[2]>>
      [] sv[1] = "timestamp" /\ decl = "TIMESTAMP" -> <<"time.Time", sv[2]>>
      [] sv[1] = "timestamp" /\ decl # "TIMESTAMP" -> <<"string", sv[2]>>

(***************************************************************************)
(* The engine's statements.  Each returns the driver error ("" for none),  *)
(* the rows affected and the tables afterwards.  fk is whether the         *)
(* connection executing the statement enforces foreign keys.               *)
(***************************************************************************)
IndexOf(seq, x) == CHOOSE i \in 1..Len(seq) : seq[i] = x

RemoveWhere(seq, P(_)) == SelectSeq(seq, LAMBDA r : ~P(r))

\* an engine that never finds the value stored
HasRowWith_blind(rows, c, sv) == FALSE

HasRowWith(rows, c, sv) == \E i \in 1..Len(rows) : rows[i][c] = sv

\* INSERT INTO table (columns) VALUES (values)
ExecInsert(tbls, fk, table, columns, values) ==
    LET row == [c \in ColumnNames(table) |->
                   IF c \in Range(columns) THEN Bind(values[IndexOf(columns, c)])
                   ELSE ColumnOf(table, c).default]
        fail(e) == [err |-> e, affected |-> 0, tables |-> tbls]
    IN  IF ~Migrated(tbls) THEN fail("no such table")
        ELSE IF Len(columns) = 0 THEN fail("syntax error")
        ELSE IF \E c \in Range(columns) : c \notin ColumnNames(table)
            THEN fail("no such column")
        ELSE IF \E c \in ColumnNames(table) : ColumnOf(table, c).notnull /\ row[c] = Null
            THEN fail("NOT NULL constraint failed")
        ELSE IF \E c \in ColumnNames(table) :
                    ColumnOf(table, c).unique /\ row[c] # Null /\ HasRowWith(tbls[table], c, row[c])
            THEN fail("UNIQUE constraint failed")
        ELSE IF fk /\ \E k \in ForeignKeys(table) :
                    row[k.col] # Null /\ ~HasRowWith(tbls[k.parent], "id", row[k.col])
            THEN fail("FOREIGN KEY constraint failed")
        ELSE [err |-> "", affected |-> 1,
              tables |-> [tbls EXCEPT ![table] = Append(@, row)]]

\* the row after SET assignments, applied left to right (the rightmost assignment of a column wins)
RECURSIVE ApplyAssignments(_, _)
ApplyAssignments(row, assignments) ==
    IF assignments = << >> THEN row
    ELSE ApplyAssignments([row EXCEPT ![Head(assignments)[1]] = Bind(Head(assignments)[2])],
                          Tail(assignments))

\* UPDATE table SET assignments WHERE id = ?
ExecUpdate(tbls, fk, table, assignments, id) ==
    LET rows == tbls[table]
        hit == {i \in 1..Len(rows) : rows[i]["id"] = Text(id)}
        fail(e) == [err |-> e, affected |-> 0, tables |-> tbls]
    IN  IF ~Migrated(tbls) THEN fail("no such table")
        ELSE IF Len(assignments) = 0 THEN fail("syntax error")
        ELSE IF \E a \in Range(assignments) : a[1] \notin ColumnNames(table)
            THEN fail("no such column")
        ELSE IF hit = {} THEN [err |-> "", affected |-> 0, tables |-> tbls]
        ELSE LET i == CHOOSE j \in hit : TRUE
                 new == ApplyAssignments(rows[i], assignments)
             IN  IF \E c \in ColumnNames(table) :
                        /\ ColumnOf(table, c).unique
                        /\ new[c] # Null
                        /\ \E j \in 1..Len(rows) : j # i /\ rows[j][c] = new[c]
                    THEN fail("UNIQUE constraint failed")
                 ELSE IF fk /\ \E k \in ForeignKeys(table) :
                            new[k.col] # Null /\ ~HasRowWith(tbls[k.parent], "id", new[k.col])
                    THEN fail("FOREIGN KEY constraint failed")
                 ELSE [err |-> "", affected |-> 1,
                       tables |-> [tbls EXCEPT ![table][i] = new]]

\* ON DELETE CASCADE / SET NULL of the rows that reference the deleted parents
CascadeUsers(tbls, id) ==
    LET goneGroups == {r["id"] : r \in {g \in Range(tbls.reminder_groups) : g["user_id"] = Text(id)}}
        groups == RemoveWhere(tbls.reminder_groups, LAMBDA g : g["user_id"] = Text(id))
        kept == RemoveWhere(tbls.reminders, LAMBDA r : r["user_id"] = Text(id))
        reminders == [i \in 1..Len(kept) |->
                        IF kept[i]["reminder_group_id"] \in goneGroups
                        THEN [kept[i] EXCEPT !["reminder_group_id"] = Null] ELSE kept[i]]
    IN  [tbls EXCEPT !.reminder_groups = groups, !.reminders = reminders]

CascadeGroups(tbls, id) ==
    [tbls EXCEPT !.reminders =
        [i \in 1..Len(@) |->
            IF @[i]["reminder_group_id"] = Text(id)
            THEN [@[i] EXCEPT !["reminder_group_id"] = Null] ELSE @[i]]]

\* DELETE FROM table WHERE id = ?
ExecDelete(tbls, fk, table, id) ==
    LET rows == tbls[table]
        hit == {i \in 1..Len(rows) : rows[i]["id"] = Text(id)}
        direct == [tbls EXCEPT ![table] = RemoveWhere(@, LAMBDA r : r["id"] = Text(id))]
    IN  IF ~Migrated(tbls) THEN [err |-> "no such table", affected |-> 0, tables |-> tbls]
        ELSE IF hit = {} THEN [err |-> "", affected |-> 0, tables |-> tbls]
        ELSE [err |-> "", affected |-> Cardinality(hit),
              tables |-> IF ~fk THEN direct
                         ELSE IF table = "users" THEN CascadeUsers(direct, id)
                         ELSE IF table = "reminder_groups" THEN CascadeGroups(direct, id)
                         ELSE direct]

\* a WHERE clause is a set of <<column, argument>> terms and the connective joining them
WhereHolds(row, where) ==
    IF where.join = "AND"
    THEN \A t \in where.terms : row[t[1]] # Null /\ row[t[1]] = Bind(t[2])
    ELSE \E t \in where.terms : row[t[1]] # Null /\ row[t[1]] = Bind(t[2])

\* SELECT * FROM table [WHERE where]: the matching rows in rowid order
ExecSelect(tbls, table, where) ==
    IF ~Migrated(tbls) THEN [err |-> "no such table", rows |-> << >>]
    ELSE IF \E t \in where.terms : t[1] \notin ColumnNames(table)
    THEN [err |-> "no such column", rows |-> << >>]
    ELSE IF where.terms = {} THEN [err |-> "", rows |-> tbls[table]]
    ELSE [err |-> "", rows |-> SelectSeq(tbls[table], LAMBDA r : WhereHolds(r, where))]

(***************************************************************************)
(* Field mapping of the relational backend (sqlite.go:555-791).            *)
(***************************************************************************)
NonZeroFields(data) ==
    SelectSeq(FieldsOf(data.type), LAMBDA fd : ~isZeroOfUnderlyingType(data.f[fd.name]))

extractFieldsForInsert(data, primaryKey) ==
    IF ~IsStruct(data)
    THEN [err |-> ErrInvalidInput, columns |-> << >>, values |-> << >>, id |-> ""]
    ELSE LET fs == NonZeroFields(data)
             ids == {i \in 1..Len(fs) : columnName(fs[i]) = primaryKey /\ fs[i].kind = "string"}
         IN  [err |-> OK,
              columns |-> [i \in 1..Len(fs) |-> columnName(fs[i])],
              values |-> [i \in 1..Len(fs) |-> data.f[fs[i].name]],
              id |-> IF ids = {} THEN "" ELSE data.f[fs[CHOOSE i \in ids : TRUE].name][2]]

\* variant: zero-valued fields are assigned too
extractFieldsForUpdate_all(data) ==
    IF ~IsStruct(data)
    THEN [err |-> ErrInvalidInput, assignments |-> << >>]
    ELSE LET fs == SelectSeq(FieldsOf(data.type), LAMBDA fd : columnName(fd) # "id")
             set == [i \in 1..Len(fs) |-> <<columnName(fs[i]), data.f[fs[i].name]>>]
             stamped == \E i \in 1..Len(FieldsOf(data.type)) :
                            FieldsOf(data.type)[i].name \in {"Updated_at", "UpdatedAt"}
         IN  [err |-> OK,
              assignments |-> IF stamped THEN Append(set, <<"updated_at", GoTime(Now)>>) ELSE set]

extractFieldsForUpdate(data) ==
    IF ~IsStruct(data)
    THEN [err |-> ErrInvalidInput, assignments |-> << >>]
    ELSE LET fs == SelectSeq(NonZeroFields(data), LAMBDA fd : columnName(fd) # "id")
             set == [i \in 1..Len(fs) |-> <<columnName(fs[i]), data.f[fs[i].name]>>]
             stamped == \E i \in 1..Len(FieldsOf(data.type)) :
                            FieldsOf(data.type)[i].name \in {"Updated_at", "UpdatedAt"}
         IN  [err |-> OK,
              assignments |-> IF stamped THEN Append(set, <<"updated_at", GoTime(Now)>>) ELSE set]

\* variant: the filter entries joined by OR
buildWhereClause_or(filter) == [terms |-> filter, join |-> "OR"]

\* a filter is a set of <<key, value>> entries with distinct keys
buildWhereClause(filter) == [terms |-> filter, join |-> "AND"]

\* result must be a non-nil pointer to a struct
validateResultType(result) == IF IsStruct(result) THEN OK ELSE ErrInvalidInput

\* time.Parse(time.RFC3339, s) succeeds
RFC3339Strings == {"2024-01-01T00:00:00Z"}

setFieldValue(kind, cur, val) ==
    CASE kind = "string" ->
            IF val[1] \in {"string", "[]byte"} THEN GoStr(val[2]) ELSE cur
      [] kind = "int" ->
            IF val[1] = "int64" THEN GoInt(val[2]) ELSE cur
      [] kind = "bool" ->
            IF val[1] = "bool" THEN GoBool(val[2])
            ELSE IF val[1] = "int64" THEN GoBool(IF val[2] = "0" THEN "false" ELSE "true")
            ELSE cur
      [] kind = "time" ->
            IF val[1] \in {"string", "[]byte"} /\ val[2] \in RFC3339Strings
            THEN GoTime(val[2]) ELSE cur
      [] OTHER -> cur

mapRowToStruct(table, row, result) ==
    [result EXCEPT !.f =
        [n \in DOMAIN result.f |->
            LET fd == FieldsOf(result.type)[CHOOSE i \in 1..Len(FieldsOf(result.type)) :
                                                FieldsOf(result.type)[i].name = n]
                c == columnName(fd)
            IN  IF c \notin ColumnNames(table) THEN result.f[n]
                ELSE LET val == ScanValue(ColumnOf(table, c).decl, row[c])
                     IN  IF val[1] = "nil" THEN result.f[n]
                         ELSE setFieldValue(fd.kind, result.f[n], val)]]

(***************************************************************************)
(* SQLiteCollection (sqlite.go:246-519).  c is the state of db.conn, fk    *)
(* whether the serving connection enforces foreign keys.  Each operation   *)
(* returns its error, the tables afterwards and its outputs.               *)
(***************************************************************************)
Ret(e, tbls) == [err |-> e, tables |-> tbls, id |-> "", out |-> << >>, n |-> 0]

\* variant: every driver failure reported as Internal
createError_internal(e) == ErrInternal

\* sqlite.go:269-274
createError(e) == IF e = "UNIQUE constraint failed" THEN ErrDuplicate ELSE ErrInternal

\* sqlite.go:446-451
updateError(e) == IF e = "UNIQUE constraint failed" THEN ErrDuplicate ELSE ErrInternal

\* ctx is the caller's context: conn.ExecContext(ctx, ...) returns ctx.Err() without
\* running the statement when the context is already done
SQLiteCreateCtx(ctx, c, fk, tbls, table, data) ==
    IF c = "nil" THEN Ret(ErrInternal, tbls)
    ELSE LET ex == extractFieldsForInsert(data, "id")
         IN  IF ex.err # OK THEN Ret(ex.err, tbls)
             ELSE IF c = "closed" THEN Ret(ErrInternal, tbls)
             ELSE IF ctx = Expired THEN Ret(createError("context deadline exceeded"), tbls)
             ELSE LET r == ExecInsert(tbls, fk, table, ex.columns, ex.values)
                  IN  IF r.err # "" THEN Ret(createError(r.err), tbls)
                      ELSE [Ret(OK, r.tables) EXCEPT !.id = ex.id]

\* Create called with context.Background()
SQLiteCreate(c, fk, tbls, table, data) == SQLiteCreateCtx(Background, c, fk, tbls, table, data)

SQLiteGetById(c, tbls, table, id, result) ==
    IF c = "nil" THEN Ret(ErrInternal, tbls)
    ELSE IF validateResultType(result) # OK THEN Ret(validateResultType(result), tbls)
    ELSE IF c = "closed" THEN Ret(ErrInternal, tbls)
    ELSE LET q == ExecSelect(tbls, table, [terms |-> {<<"id", GoStr(id)>>}, join |-> "AND"])
         IN  IF q.err # "" THEN Ret(ErrInternal, tbls)
             ELSE IF Len(q.rows) = 0 THEN Ret(ErrNotFound, tbls)
             ELSE [Ret(OK, tbls) EXCEPT !.out = <<mapRowToStruct(table, q.rows[1], result)>>]

\* results is the slice behind the pointer: its element type and its elements on entry
SQLiteGetAllByCondition(c, tbls, table, filter, results) ==
    IF c = "nil" THEN [Ret(ErrInternal, tbls) EXCEPT !.out = results.items]
    ELSE IF ~IsStruct(results) THEN [Ret(ErrInvalidInput, tbls) EXCEPT !.out = results.items]
    ELSE IF c = "closed" THEN [Ret(ErrInternal, tbls) EXCEPT !.out = results.items]
    ELSE LET q == ExecSelect(tbls, table, buildWhereClause(filter))
         IN  IF q.err # "" THEN [Ret(ErrInternal, tbls) EXCEPT !.out = results.items]
             ELSE [Ret(OK, tbls) EXCEPT
                      !.out = [i \in 1..Len(q.rows) |->
                                  mapRowToStruct(table, q.rows[i], Fresh(results.type))]]

SQLiteGetOne(c, tbls, table, filter, result) ==
    IF c = "nil" THEN Ret(ErrInternal, tbls)
    ELSE IF validateResultType(result) # OK THEN Ret(validateResultType(result), tbls)
    ELSE IF c = "closed" THEN Ret(ErrInternal, tbls)
    ELSE LET q == ExecSelect(tbls, table, buildWhereClause(filter))
         IN  IF q.err # "" THEN Ret(ErrInternal, tbls)
             ELSE IF Len(q.rows) = 0 THEN Ret(ErrNotFound, tbls)
             ELSE [Ret(OK, tbls) EXCEPT !.out = <<mapRowToStruct(table, q.rows[1], result)>>]

\* variant: the number of affected rows is not looked at
updateRowsAffected_ignored(affected) == OK

\* sqlite.go:453-461
updateRowsAffected(affected) == IF affected = 0 THEN ErrNotFound ELSE OK

\* variant: NotFound reported whatever the number of deleted rows
deleteRowsAffected_always(affected) == ErrNotFound

\* sqlite.go:483-491
deleteRowsAffected(affected) == IF affected = 0 THEN ErrNotFound ELSE OK

SQLiteUpdateById(c, fk, tbls, table, id, data) ==
    IF c = "nil" THEN Ret(ErrInternal, tbls)
    ELSE LET ex == extractFieldsForUpdate(data)
         IN  IF ex.err # OK THEN Ret(ex.err, tbls)
             ELSE IF c = "closed" THEN Ret(ErrInternal, tbls)
             ELSE LET r == ExecUpdate(tbls, fk, table, ex.assignments, id)
                  IN  IF r.err # "" THEN Ret(updateError(r.err), tbls)
                      ELSE Ret(updateRowsAffected(r.affected), r.tables)

SQLiteDeleteById(c, fk, tbls, table, id) ==
    IF c # "open" THEN Ret(ErrInternal, tbls)
    ELSE LET r == ExecDelete(tbls, fk, table, id)
         IN  IF r.err # "" THEN Ret(ErrInternal, tbls)
             ELSE Ret(deleteRowsAffected(r.affected), r.tables)

SQLiteCount(c, tbls, table, filter) ==
    IF c # "open" THEN Ret(ErrInternal, tbls)
    ELSE LET q == ExecSelect(tbls, table, buildWhereClause(filter))
         IN  IF q.err # "" THEN Ret(ErrInternal, tbls)
             ELSE [Ret(OK, tbls) EXCEPT !.n = Len(q.rows)]

(***************************************************************************)
(* FirestoreCollection (firestore.go:166-508).  The collection is a set of *)
(* [id, data] documents with distinct ids; data, filters and map payloads  *)
(* are sets of <<label, value>> entries with distinct labels.  c is the    *)
(* state of db.client.                                                     *)
(***************************************************************************)
DocIdOrder == <<"d1", "d2", "d3">>    \* document names, in the store's order

Labels(m) == {e[1] : e \in m}

HasDoc(coll, id) == \E d \in coll : d.id = id

DocAt(coll, id) == CHOOSE d \in coll : d.id = id

isZeroValue(v) == v = ZeroOf(v[1])

structToMap(data) ==
    IF ~IsStruct(data) THEN [err |-> Untyped, map |-> {}]
    ELSE LET fs == SelectSeq(FieldsOf(data.type),
                             LAMBDA fd : /\ fd.tag # "-"
                                         /\ ~(fd.omitempty /\ isZeroValue(data.f[fd.name])))
         IN  [err |-> OK,
              map |-> {<<IF fs[i].tag = "" THEN fs[i].name ELSE fs[i].tag, data.f[fs[i].name]>> :
                          i \in 1..Len(fs)}]

\* variant: the labels of the stored document that the new data omits are kept
DocSet_keep(coll, id, m) ==
    {d \in coll : d.id # id} \cup
    {[id |-> id,
      data |-> m \cup {e \in UNION {d.data : d \in {x \in coll : x.id = id}} : e[1] \notin Labels(m)}]}

\* DocumentRef.Set(ctx, data): the document is replaced, or created
DocSet(coll, id, m) == {d \in coll : d.id # id} \cup {[id |-> id, data |-> m]}

RECURSIVE MergeFields(_, _)

\* a nested map as a field value
GoMap(m) == <<"map", m>>

\* the fields after merging map m into the fields old: every leaf of m is written at its
\* field path, so a nested map is merged into the map stored under the same label
MergeFields(old, m) ==
    LET at(l) == {e \in old : e[1] = l}
        sub(l) == IF \E e \in at(l) : e[2][1] = "map"
                  THEN (CHOOSE e \in at(l) : TRUE)[2][2] ELSE {}
        written == {e \in m : ~(e[2][1] = "map" /\ e[2][2] = {})}
    IN  {e \in old : e[1] \notin Labels(written)} \cup
        {<<e[1], IF e[2][1] = "map" THEN GoMap(MergeFields(sub(e[1]), e[2][2])) ELSE e[2]>> :
            e \in written}

\* variant: the document is replaced by the map
DocSetMergeAll_replace(coll, id, m) == DocSet(coll, id, m)

\* DocumentRef.Set(ctx, m, firestore.MergeAll): merged into the document, or created
DocSetMergeAll(coll, id, m) ==
    DocSet(coll, id, MergeFields(IF HasDoc(coll, id) THEN DocAt(coll, id).data ELSE {}, m))

\* DocumentRef.Delete(ctx): no precondition, a missing document is not an error
DocDelete(coll, id) == {d \in coll : d.id # id}

\* Query.Where(field, "==", value) for every filter entry: the matching documents, by name
DocQuery(coll, filter) ==
    LET ids == SelectSeq(DocIdOrder, LAMBDA id : HasDoc(coll, id) /\ filter \subseteq DocAt(coll, id).data)
    IN  [i \in 1..Len(ids) |-> DocAt(coll, ids[i])]

\* DocumentSnapshot.DataTo(result): labelled fields are decoded, others left alone
DataTo(doc, result) ==
    IF ~IsStruct(result) THEN [err |-> Untyped, rec |-> result]
    ELSE LET fd(n) == FieldsOf(result.type)[CHOOSE i \in 1..Len(FieldsOf(result.type)) :
                                                FieldsOf(result.type)[i].name = n]
             label(n) == IF fd(n).tag = "" THEN n ELSE fd(n).tag
             stored(n) == {e \in doc.data : e[1] = label(n)}
         IN  IF \E n \in DOMAIN result.f : \E e \in stored(n) : e[2][1] # fd(n).kind
             THEN [err |-> Untyped, rec |-> result]
             ELSE [err |-> OK,
                   rec |-> [result EXCEPT !.f =
                              [n \in DOMAIN result.f |->
                                  IF fd(n).tag # "-" /\ stored(n) # {}
                                  THEN (CHOOSE e \in stored(n) : TRUE)[2]
                                  ELSE result.f[n]]]]

DRet(e, coll) == [err |-> e, docs |-> coll, id |-> "", out |-> << >>, n |-> 0]

\* ctx is the caller's context: Doc(id).Set(ctx, ...) fails when the context is done
FirestoreCreateCtx(ctx, c, coll, data) ==
    IF c = "nil" THEN DRet(Untyped, coll)
    ELSE IF ~IsStruct(data) THEN DRet(Untyped, coll)
    ELSE IF "ID" \notin DOMAIN data.f THEN DRet(Untyped, coll)
    ELSE IF data.f["ID"][1] # "string" THEN DRet(Untyped, coll)
    ELSE IF data.f["ID"][2] = "" THEN DRet(Untyped, coll)
    ELSE IF structToMap(data).err # OK THEN DRet(Untyped, coll)
    ELSE IF c = "closed" \/ ctx = Expired THEN DRet(Untyped, coll)
    ELSE [DRet(OK, DocSet(coll, data.f["ID"][2], structToMap(data).map)) EXCEPT
             !.id = data.f["ID"][2]]

\* Create called with context.Background()
FirestoreCreate(c, coll, data) == FirestoreCreateCtx(Background, c, coll, data)

FirestoreGetById(c, coll, id, result) ==
    IF c # "open" THEN DRet(Untyped, coll)
    ELSE IF ~HasDoc(coll, id) THEN DRet(Untyped, coll)
    ELSE IF DataTo(DocAt(coll, id), result).err # OK THEN DRet(Untyped, coll)
    ELSE [DRet(OK, coll) EXCEPT !.out = <<DataTo(DocAt(coll, id), result).rec>>]

FirestoreGetOne(c, coll, filter, result) ==
    IF c = "nil" THEN DRet(Untyped, coll)
    ELSE IF c = "closed" THEN DRet(ErrInternal, coll)
    ELSE LET q == DocQuery(coll, filter)
         IN  IF Len(q) = 0 THEN DRet(ErrNotFound, coll)
             ELSE IF DataTo(q[1], result).err # OK THEN DRet(Untyped, coll)
             ELSE [DRet(OK, coll) EXCEPT !.out = <<DataTo(q[1], result).rec>>]

\* variant: an empty query result reported as NotFound, as GetOne does
FirestoreGetAllByCondition_notfound(c, coll, filter, results) ==
    IF c # "open" THEN [DRet(Untyped, coll) EXCEPT !.out = results.items]
    ELSE IF Len(DocQuery(coll, filter)) = 0
        THEN [DRet(ErrNotFound, coll) EXCEPT !.out = results.items]
    ELSE [DRet(OK, coll) EXCEPT !.out = results.items \o DocQuery(coll, filter)]

FirestoreGetAllByCondition(c, coll, filter, results) ==
    IF c # "open" THEN [DRet(Untyped, coll) EXCEPT !.out = results.items]
    ELSE IF ~IsStruct(results) THEN [DRet(Untyped, coll) EXCEPT !.out = results.items]
    ELSE LET q == DocQuery(coll, filter)
             item(d) == LET r == DataTo(d, Fresh(results.type)).rec
                        IN  IF "ID" \in DOMAIN r.f /\ r.f["ID"][1] = "string"
                            THEN [r EXCEPT !.f["ID"] = GoStr(d.id)] ELSE r
         IN  IF \E i \in 1..Len(q) : DataTo(q[i], Fresh(results.type)).err # OK
             THEN [DRet(Untyped, coll) EXCEPT !.out = results.items]
             ELSE [DRet(OK, coll) EXCEPT !.out = results.items \o [i \in 1..Len(q) |-> item(q[i])]]

\* data is either a map payload, [type |-> "map", m |-> entries], or a struct
FirestoreUpdateById(c, coll, id, data) ==
    IF c = "nil" THEN DRet(Untyped, coll)
    ELSE IF data.type = "map"
        THEN IF c = "closed" THEN DRet(Untyped, coll)
             ELSE DRet(OK, DocSetMergeAll(coll, id, data.m))
    ELSE IF structToMap(data).err # OK
        THEN DRet(Untyped, coll)      \* Set rejects data that is neither a map nor a struct
    ELSE IF c = "closed" THEN DRet(Untyped, coll)
    ELSE DRet(OK, DocSetMergeAll(coll, id, structToMap(data).map))

\* variant: a missing document reported as NotFound
FirestoreDeleteById_strict(c, coll, id) ==
    IF c # "open" THEN DRet(Untyped, coll)
    ELSE IF ~HasDoc(coll, id) THEN DRet(ErrNotFound, coll)
    ELSE DRet(OK, DocDelete(coll, id))

FirestoreDeleteById(c, coll, id) ==
    IF c # "open" THEN DRet(Untyped, coll)
    ELSE DRet(OK, DocDelete(coll, id))

\* variant: every document counted, whatever the filter
FirestoreCount_unfiltered(c, coll, filter) ==
    IF c # "open" THEN DRet(Untyped, coll)
    ELSE [DRet(OK, coll) EXCEPT !.n = Cardinality(coll)]

FirestoreCount(c, coll, filter) ==
    IF c # "open" THEN DRet(Untyped, coll)
    ELSE [DRet(OK, coll) EXCEPT !.n = Len(DocQuery(coll, filter))]

(***************************************************************************)
(* Inputs of the calls: the records, payloads, identifiers and filters     *)
(* the operations are exercised with.                                      *)
(***************************************************************************)
T1 == "2024-01-01T00:00:00Z"

Rec(type, fields) == [type |-> type, f |-> fields @@ Fresh(type).f]

User(id, username, email, password, role) ==
    Rec("TestUser", [ID |-> GoStr(id), Username |-> GoStr(username), Email |-> GoStr(email),
                     Password |-> GoStr(password), Role |-> GoStr(role),
                     CreatedAt |-> GoTime(T1), UpdatedAt |-> GoTime(T1)])

Group(id, name, user) ==
    Rec("TestReminderGroup", [ID |-> GoStr(id), Name |-> GoStr(name), UserID |-> GoStr(user),
                              CreatedAt |-> GoTime(T1), UpdatedAt |-> GoTime(T1)])

Reminder(id, title, description, pinned, user, group) ==
    Rec("TestReminder", [ID |-> GoStr(id), Title |-> GoStr(title),
                         Description |-> GoStr(description), IsPinned |-> GoBool(pinned),
                         UserID |-> GoStr(user), ReminderGroupID |-> GoStr(group),
                         CreatedAt |-> GoTime(T1), UpdatedAt |-> GoTime(T1)])

Item(id, name, value, description) ==
    Rec("TestItem", [ID |-> GoStr(id), Name |-> GoStr(name), Value |-> GoInt(value),
                     Description |-> GoStr(description)])

MapData(m) == [type |-> "map", f |-> [ID |-> GoStr("")], m |-> m]

U1 == User("u1", "alice", "a@x", "pw", "user")
U2 == User("u2", "bob", "b@x", "pw", "admin")
U2alice == User("u2", "alice", "c@x", "pw", "user")      \* U1's username under another id
U1nopw == User("u1", "alice", "a@x", "", "user")         \* U1 again, password left empty
U1active == [U1 EXCEPT !.f["Active"] = GoBool("true")]   \* a field the users table has no column for
G1 == Group("g1", "work", "u1")
R1 == Reminder("r1", "milk", "buy milk", "true", "u1", "g1")
R0 == Reminder("", "note", "", "false", "u1", "")        \* the identifier left empty

SqlCreateInputs ==
    { <<"users", U1>>, <<"users", U2>>, <<"users", U2alice>>, <<"users", U1nopw>>,
      <<"users", U1active>>, <<"users", NotAStruct>>,
      <<"reminder_groups", G1>>,
      <<"reminders", R1>>, <<"reminders", R0>> }

SqlUpdateInputs ==
    { <<"users", Rec("TestUser", [Role |-> GoStr("admin")])>>,
      <<"users", Fresh("RolePatch")>>,
      <<"users", NotAStruct>> }

SqlIds(table) ==
    CASE table = "users" -> {"u1", "u2", "u9"}
      [] table = "reminder_groups" -> {"g1", "g9"}
      [] table = "reminders" -> {"r1", "r9"}

ResultType(table) ==
    CASE table = "users" -> "TestUser"
      [] table = "reminder_groups" -> "TestReminderGroup"
      [] table = "reminders" -> "TestReminder"

SqlFilters(table) ==
    CASE table = "users" ->
            { {}, {<<"role", GoStr("admin")>>},
              {<<"role", GoStr("user")>>, <<"username", GoStr("alice")>>},
              {<<"invalid;column", GoStr("value")>>} }
      [] table = "reminder_groups" ->
            { {}, {<<"user_id", GoStr("u1")>>, <<"name", GoStr("work")>>} }
      [] table = "reminders" ->
            { {}, {<<"user_id", GoStr("u1")>>},
              {<<"user_id", GoStr("u1")>>, <<"is_pinned", GoBool("true")>>},
              {<<"description", GoStr("")>>} }

\* the filters the query operations are run with
SqlProbes ==
    { <<"users", {}>>, <<"users", {<<"invalid;column", GoStr("value")>>}>>,
      <<"users", {<<"role", GoStr("admin")>>}>>,
      <<"reminders", {<<"user_id", GoStr("u1")>>, <<"is_pinned", GoBool("true")>>}>> }

\* the slice handed to GetAllByCondition: freshly declared, or still holding earlier results
NewSlice(type) == [type |-> type, items |-> << >>]

UsedSlice(type) == [type |-> type, items |-> <<Fresh(type)>>]

Slices(type) == {NewSlice(type), UsedSlice(type)}

I1 == Item("d1", "pen", "10", "blue")
I2 == Item("d2", "ink", "20", "")
I3 == Item("d3", "pen", "20", "")
I1b == Item("d1", "cap", "10", "")
I0 == Item("", "nib", "5", "")

DocCreateInputs == {I1, I2, I3, I1b, I0, NotAStruct}

DocUpdateInputs ==
    { MapData({<<"value", GoInt("999")>>}),
      MapData({<<"name", GoStr("pen")>>, <<"value", GoInt("20")>>}),
      Item("", "ink", "20", "") }

DocIds == {"d1", "d2", "d3"}

DocFilters ==
    { {}, {<<"name", GoStr("pen")>>}, {<<"name", GoStr("Non-existent")>>},
      {<<"name", GoStr("pen")>>, <<"value", GoInt("20")>>}, {<<"value", GoInt("999")>>} }

(***************************************************************************)
(* The state machine.                                                      *)
(***************************************************************************)
\* the call last made: its operation, identifier argument, context and returned error
CallCtx(op, id, ctx, err) == [op |-> op, id |-> id, ctx |-> ctx, err |-> err]

Call(op, id, err) == CallCtx(op, id, Background, err)

\* no concurrent caller is running
NoCallers ==
    /\ calls = << >>
    /\ free = << >>

\* no rate limiter is constructed
NoLimiter ==
    /\ limit = 0
    /\ window = 0
    /\ clients = {}
    /\ clock = 0
    /\ mu = 0
    /\ reqs = << >>

\* the configurations NewDBManager is called with
Configs ==
    { [DBType |-> SQLite, SQLiteFile |-> "test.db"], [DBType |-> SQLite, SQLiteFile |-> ""],
      [DBType |-> Firestore, SQLiteFile |-> ""], [DBType |-> "unsupported", SQLiteFile |-> ""] }

\* NewSQLiteDatabase: the file path is required
NewSQLiteDatabase(cfg) ==
    IF cfg.SQLiteFile = "" THEN [err |-> Untyped, db |-> "none"] ELSE [err |-> OK, db |-> SQLite]

\* NewFirestoreDatabase
NewFirestoreDatabase(cfg) == [err |-> OK, db |-> Firestore]

\* NewDBManager: the kind of Database the manager holds ("none" when no manager is
\* returned) and the error
NewDBManager(cfg) ==
    CASE cfg.DBType = SQLite -> NewSQLiteDatabase(cfg)
      [] cfg.DBType = Firestore -> NewFirestoreDatabase(cfg)
      [] OTHER -> [err |-> Untyped, db |-> "none"]

Init ==
    /\ \E cfg \in Configs :
          /\ dbType = NewDBManager(cfg).db
          /\ last = Call("NewDBManager", cfg.DBType, NewDBManager(cfg).err)
    /\ conn = "nil"
    /\ fkOn = FALSE
    /\ tables = NoTables
    /\ docs = {}
    /\ NoCallers
    /\ NoLimiter

\* sqlite.go:102-107
SQLiteDatabasePing(c) ==
    IF c = "nil" THEN Untyped
    ELSE IF c = "closed" THEN Untyped
    ELSE OK

\* sqlite.go:165-214: s.conn is used without a nil check, so the call on a Database that
\* never connected dereferences a nil *sql.DB; CREATE TABLE IF NOT EXISTS leaves tables
\* that exist as they are
SQLiteDatabaseMigrate(c, tbls) ==
    IF c = "nil" THEN [err |-> Panic, tables |-> tbls]
    ELSE IF c = "closed" THEN [err |-> Untyped, tables |-> tbls]
    ELSE [err |-> OK, tables |-> IF Migrated(tbls) THEN tbls ELSE EmptyTables]

\* variant: the users table is taken to be empty without being counted
SeedCount_blind(c, tbls) ==
    IF c = "nil" THEN [err |-> Panic, count |-> 0]
    ELSE IF c = "closed" \/ ~Migrated(tbls) THEN [err |-> Untyped, count |-> 0]
    ELSE [err |-> OK, count |-> 0]

\* sqlite.go:221-225: SELECT COUNT(*) FROM users, s.conn used without a nil check
SeedCount(c, tbls) ==
    IF c = "nil" THEN [err |-> Panic, count |-> 0]
    ELSE IF c = "closed" \/ ~Migrated(tbls) THEN [err |-> Untyped, count |-> 0]
    ELSE [err |-> OK, count |-> Len(tbls.users)]

AdminColumns == <<"id", "username", "email", "password", "role", "created_at", "updated_at">>

AdminValues ==
    << GoStr("admin-uuid"), GoStr("admin"), GoStr("admin@example.com"), GoStr("$2a$10$"),
       GoStr("admin"), GoTime(Now), GoTime(Now) >>

\* sqlite.go:227-240: INSERT INTO users of the admin user
SeedInsert(c, fk, tbls) ==
    IF c = "nil" THEN [err |-> Panic, tables |-> tbls]
    ELSE IF c = "closed" THEN [err |-> Untyped, tables |-> tbls]
    ELSE LET r == ExecInsert(tbls, fk, "users", AdminColumns, AdminValues)
         IN  IF r.err # "" THEN [err |-> Untyped, tables |-> tbls]
             ELSE [err |-> OK, tables |-> r.tables]

\* sqlite.go:217-243, one call running alone
SQLiteDatabaseSeed(c, fk, tbls) ==
    LET n == SeedCount(c, tbls)
    IN  IF n.err # OK THEN [err |-> n.err, tables |-> tbls]
        ELSE IF n.count = 0 THEN SeedInsert(c, fk, tbls)
        ELSE [err |-> OK, tables |-> tbls]

\* firestore.go:123-137
FirestoreDatabasePing(c) ==
    IF c = "nil" THEN Untyped
    ELSE IF c = "closed" THEN Untyped
    ELSE OK

\* firestore.go:139-151: Migrate and Seed do nothing and return nil
FirestoreDatabaseMigrate(c) == OK

FirestoreDatabaseSeed(c) == OK

\* variant: a handle that was closed is not opened again
SQLiteDatabaseConnect_once(ctx, c, fk) ==
    IF ctx = Expired \/ c = "closed" THEN [err |-> Untyped, conn |-> c, fkOn |-> fk]
    ELSE [err |-> OK, conn |-> "open", fkOn |-> TRUE]

\* sqlite.go:61-90: with a context that is done, ExecContext of the PRAGMA fails, the new
\* pool is closed and s.conn keeps its value
SQLiteDatabaseConnect(ctx, c, fk) ==
    IF ctx = Expired THEN [err |-> Untyped, conn |-> c, fkOn |-> fk]
    ELSE [err |-> OK, conn |-> "open", fkOn |-> TRUE]

\* what Connect meets outside the program: a reachable service, a configuration
\* firebase.NewApp or app.Firestore rejects, or a service that does not answer
FirestoreEnvs == {"up", "rejected", "down"}

\* firestore.go:42-100: the app and the client are created with f.ctx, which
\* NewFirestoreDatabase derives from context.Background(), and the connection is tested
\* with Ping(context.Background()); the caller's context is not read.  f.client is
\* assigned (line 90) before the Ping whose failure makes Connect return an error
FirestoreDatabaseConnect(ctx, env, c) ==
    CASE env = "rejected" -> [err |-> Untyped, conn |-> c]
      [] env = "down" -> [err |-> Untyped, conn |-> "open"]
      [] OTHER -> [err |-> OK, conn |-> "open"]

\* SQLiteDatabase.Connect: a pool is opened and PRAGMA foreign_keys = ON is executed on
\* one connection of it, which then serves the calls
SQLiteConnect ==
    /\ dbType = SQLite
    /\ conn \in {"nil", "closed"}
    /\ \E ctx \in Contexts :
          LET r == SQLiteDatabaseConnect(ctx, conn, fkOn)
          IN  /\ conn' = r.conn
              /\ fkOn' = r.fkOn
              /\ last' = CallCtx("Connect", "", ctx, r.err)
    /\ UNCHANGED <<dbType, tables, docs>>
    /\ UNCHANGED <<concVars, rlVars>>

\* SQLiteDatabase.Close
SQLiteClose ==
    /\ dbType = SQLite
    /\ conn = "open"
    /\ conn' = "closed"
    /\ \E ctx \in Contexts : last' = CallCtx("Close", "", ctx, OK)
    /\ UNCHANGED <<dbType, fkOn, tables, docs>>
    /\ UNCHANGED <<concVars, rlVars>>

\* the pool retires the connection after SetConnMaxLifetime(time.Hour); its replacement
\* is opened from the bare file name and never ran the PRAGMA
ConnRecycle ==
    /\ dbType = SQLite
    /\ conn = "open"
    /\ fkOn
    /\ fkOn' = FALSE
    /\ UNCHANGED <<dbType, conn, tables, docs, last>>
    /\ UNCHANGED <<concVars, rlVars>>

SQLitePing ==
    /\ dbType = SQLite
    /\ last' = Call("Ping", "", SQLiteDatabasePing(conn))
    /\ UNCHANGED <<dbType, conn, fkOn, tables, docs>>
    /\ UNCHANGED <<concVars, rlVars>>

SQLiteMigrate ==
    /\ dbType = SQLite
    /\ LET r == SQLiteDatabaseMigrate(conn, tables)
       IN  /\ tables' = r.tables
           /\ last' = Call("Migrate", "", r.err)
    /\ UNCHANGED <<dbType, conn, fkOn, docs>>
    /\ UNCHANGED <<concVars, rlVars>>

SQLiteSeed ==
    /\ dbType = SQLite
    /\ LET r == SQLiteDatabaseSeed(conn, fkOn, tables)
       IN  /\ TotalRows(r.tables) <= MaxRows
           /\ tables' = r.tables
           /\ last' = Call("Seed", "", r.err)
    /\ UNCHANGED <<dbType, conn, fkOn, docs>>
    /\ UNCHANGED <<concVars, rlVars>>

SqlCreate ==
    /\ dbType = SQLite
    /\ \E in \in SqlCreateInputs :
       \E ctx \in Contexts :
          LET r == SQLiteCreateCtx(ctx, conn, fkOn, tables, in[1], in[2])
          IN  /\ TotalRows(r.tables) <= MaxRows
              /\ tables' = r.tables
              /\ last' = CallCtx("Create", "", ctx, r.err)
    /\ UNCHANGED <<dbType, conn, fkOn, docs>>
    /\ UNCHANGED <<concVars, rlVars>>

SqlGetById ==
    /\ dbType = SQLite
    /\ \E table \in TableNames : \E id \in SqlIds(table) :
          LET r == SQLiteGetById(conn, tables, table, id, Fresh(ResultType(table)))
          IN  last' = Call("GetById", "", r.err)
    /\ UNCHANGED <<dbType, conn, fkOn, tables, docs>>
    /\ UNCHANGED <<concVars, rlVars>>

SqlGetOne ==
    /\ dbType = SQLite
    /\ \E in \in SqlProbes :
          LET r == SQLiteGetOne(conn, tables, in[1], in[2], Fresh(ResultType(in[1])))
          IN  last' = Call("GetOne", "", r.err)
    /\ UNCHANGED <<dbType, conn, fkOn, tables, docs>>
    /\ UNCHANGED <<concVars, rlVars>>

SqlGetAllByCondition ==
    /\ dbType = SQLite
    /\ \E in \in SqlProbes :
          LET r == SQLiteGetAllByCondition(conn, tables, in[1], in[2], NewSlice(ResultType(in[1])))
          IN  last' = Call("GetAllByCondition", "", r.err)
    /\ UNCHANGED <<dbType, conn, fkOn, tables, docs>>
    /\ UNCHANGED <<concVars, rlVars>>

SqlUpdateById ==
    /\ dbType = SQLite
    /\ \E in \in SqlUpdateInputs : \E id \in SqlIds(in[1]) :
          LET r == SQLiteUpdateById(conn, fkOn, tables, in[1], id, in[2])
          IN  /\ tables' = r.tables
              /\ last' = Call("UpdateById", id, r.err)
    /\ UNCHANGED <<dbType, conn, fkOn, docs>>
    /\ UNCHANGED <<concVars, rlVars>>

SqlDeleteById ==
    /\ dbType = SQLite
    /\ \E table \in TableNames : \E id \in SqlIds(table) :
          LET r == SQLiteDeleteById(conn, fkOn, tables, table, id)
          IN  /\ tables' = r.tables
              /\ last' = Call("DeleteById", id, r.err)
    /\ UNCHANGED <<dbType, conn, fkOn, docs>>
    /\ UNCHANGED <<concVars, rlVars>>

SqlCount ==
    /\ dbType = SQLite
    /\ \E in \in SqlProbes :
          LET r == SQLiteCount(conn, tables, in[1], in[2])
          IN  last' = Call("Count", "", r.err)
    /\ UNCHANGED <<dbType, conn, fkOn, tables, docs>>
    /\ UNCHANGED <<concVars, rlVars>>

\* FirestoreDatabase.Connect
FirestoreConnect ==
    /\ dbType = Firestore
    /\ conn = "nil"
    /\ \E ctx \in Contexts : \E env \in FirestoreEnvs :
          LET r == FirestoreDatabaseConnect(ctx, env, conn)
          IN  /\ conn' = r.conn
              /\ last' = CallCtx("Connect", "", ctx, r.err)
    /\ UNCHANGED <<dbType, fkOn, tables, docs>>
    /\ UNCHANGED <<concVars, rlVars>>

\* FirestoreDatabase.Close
FirestoreClose ==
    /\ dbType = Firestore
    /\ conn = "open"
    /\ conn' = "closed"
    /\ \E ctx \in Contexts : last' = CallCtx("Close", "", ctx, OK)
    /\ UNCHANGED <<dbType, fkOn, tables, docs>>
    /\ UNCHANGED <<concVars, rlVars>>

FirestorePing ==
    /\ dbType = Firestore
    /\ last' = Call("Ping", "", FirestoreDatabasePing(conn))
    /\ UNCHANGED <<dbType, conn, fkOn, tables, docs>>
    /\ UNCHANGED <<concVars, rlVars>>

FirestoreMigrate ==
    /\ dbType = Firestore
    /\ last' = Call("Migrate", "", FirestoreDatabaseMigrate(conn))
    /\ UNCHANGED <<dbType, conn, fkOn, tables, docs>>
    /\ UNCHANGED <<concVars, rlVars>>

FirestoreSeed ==
    /\ dbType = Firestore
    /\ last' = Call("Seed", "", FirestoreDatabaseSeed(conn))
    /\ UNCHANGED <<dbType, conn, fkOn, tables, docs>>
    /\ UNCHANGED <<concVars, rlVars>>

DocCreate ==
    /\ dbType = Firestore
    /\ \E data \in DocCreateInputs :
       \E ctx \in Contexts :
          LET r == FirestoreCreateCtx(ctx, conn, docs, data)
          IN  /\ Cardinality(r.docs) <= MaxDocs
              /\ docs' = r.docs
              /\ last' = CallCtx("Create", "", ctx, r.err)
    /\ UNCHANGED <<dbType, conn, fkOn, tables>>
    /\ UNCHANGED <<concVars, rlVars>>

DocGetById ==
    /\ dbType = Firestore
    /\ \E id \in DocIds :
          last' = Call("GetById", "", FirestoreGetById(conn, docs, id, Fresh("TestItem")).err)
    /\ UNCHANGED <<dbType, conn, fkOn, tables, docs>>
    /\ UNCHANGED <<concVars, rlVars>>

DocGetOne ==
    /\ dbType = Firestore
    /\ \E filter \in DocFilters :
          last' = Call("GetOne", "", FirestoreGetOne(conn, docs, filter, Fresh("TestItem")).err)
    /\ UNCHANGED <<dbType, conn, fkOn, tables, docs>>
    /\ UNCHANGED <<concVars, rlVars>>

DocGetAllByCondition ==
    /\ dbType = Firestore
    /\ \E filter \in DocFilters :
          last' = Call("GetAllByCondition", "",
                       FirestoreGetAllByCondition(conn, docs, filter, NewSlice("TestItem")).err)
    /\ UNCHANGED <<dbType, conn, fkOn, tables, docs>>
    /\ UNCHANGED <<concVars, rlVars>>

DocUpdateById ==
    /\ dbType = Firestore
    /\ \E data \in DocUpdateInputs : \E id \in DocIds :
          LET r == FirestoreUpdateById(conn, docs, id, data)
          IN  /\ Cardinality(r.docs) <= MaxDocs
              /\ docs' = r.docs
              /\ last' = Call("UpdateById", id, r.err)
    /\ UNCHANGED <<dbType, conn, fkOn, tables>>
    /\ UNCHANGED <<concVars, rlVars>>

DocDeleteById ==
    /\ dbType = Firestore
    /\ \E id \in DocIds :
          LET r == FirestoreDeleteById(conn, docs, id)
          IN  /\ docs' = r.docs
              /\ last' = Call("DeleteById", id, r.err)
    /\ UNCHANGED <<dbType, conn, fkOn, tables>>
    /\ UNCHANGED <<concVars, rlVars>>

DocCount ==
    /\ dbType = Firestore
    /\ \E filter \in DocFilters :
          last' = Call("Count", "", FirestoreCount(conn, docs, filter).err)
    /\ UNCHANGED <<dbType, conn, fkOn, tables, docs>>
    /\ UNCHANGED <<concVars, rlVars>>

Next ==
    \/ SQLiteConnect \/ SQLiteClose \/ ConnRecycle
    \/ SQLitePing \/ SQLiteMigrate \/ SQLiteSeed
    \/ SqlCreate \/ SqlGetById \/ SqlGetOne \/ SqlGetAllByCondition
    \/ SqlUpdateById \/ SqlDeleteById \/ SqlCount
    \/ FirestoreConnect \/ FirestoreClose
    \/ FirestorePing \/ FirestoreMigrate \/ FirestoreSeed
    \/ DocCreate \/ DocGetById \/ DocGetOne \/ DocGetAllByCondition
    \/ DocUpdateById \/ DocDeleteById \/ DocCount

Spec == Init /\ [][Next]_vars

(***************************************************************************)
(* Concurrent callers of the relational backend.  Every statement of a     *)
(* call runs on a connection taken from the *sql.DB pool and given back    *)
(* when the statement is done (database/sql); the engine runs one          *)
(* statement at a time on the file.  The pool holds the connection Connect *)
(* ran the PRAGMA and the Ping on; a caller that finds no idle connection  *)
(* gets a new one, opened from the file name alone.                        *)
(***************************************************************************)
MaxCallers == 2

Callers == 1..MaxCallers

\* sqlite.go:70: conn.SetMaxOpenConns(10)
MaxOpenConns == 10

R1u1 == Reminder("r1", "milk", "buy milk", "true", "u1", "")

Request(op, table, data, id) == [op |-> op, table |-> table, data |-> data, id |-> id]

\* the calls the goroutines make
ConcRequests ==
    { Request("Seed", "users", NotAStruct, ""),
      Request("Create", "users", U1, ""),
      Request("Create", "users", U2alice, ""),
      Request("Create", "reminders", R1u1, ""),
      Request("DeleteById", "users", NotAStruct, "u1") }

\* a connected, migrated Database without rows, and one call per goroutine about to start
ConcInit ==
    /\ dbType = SQLite
    /\ conn = "open"
    /\ fkOn = TRUE
    /\ tables = EmptyTables
    /\ docs = {}
    /\ last = Call("Migrate", "", OK)
    /\ free = <<TRUE>>
    /\ calls \in [Callers -> {[req |-> r, pc |-> "new", fk |-> FALSE, err |-> OK] :
                                  r \in ConcRequests}]
    /\ NoLimiter

RemoveAt(seq, i) == [j \in 1..(Len(seq) - 1) |-> IF j < i THEN seq[j] ELSE seq[j + 1]]

\* the next position of a call once its statement has a connection
Holding(pc) == IF pc = "new" THEN "conn" ELSE "conn2"

\* database/sql (*DB).conn: an idle connection if there is one, else a new connection
AcquireConn ==
    /\ \E g \in Callers :
          /\ calls[g].pc \in {"new", "counted"}
          /\ \/ \E i \in 1..Len(free) :
                    /\ calls' = [calls EXCEPT ![g].pc = Holding(@), ![g].fk = free[i]]
                    /\ free' = RemoveAt(free, i)
             \/ /\ free = << >>
                /\ Cardinality({h \in Callers : calls[h].pc \in {"conn", "conn2"}}) < MaxOpenConns
                /\ calls' = [calls EXCEPT ![g].pc = Holding(@), ![g].fk = FALSE]
                /\ free' = free
    /\ UNCHANGED <<dbVars, rlVars>>

\* SQLiteCollection.Create on the connection the call holds
ConcCreate ==
    /\ \E g \in Callers :
          /\ calls[g].pc = "conn"
          /\ calls[g].req.op = "Create"
          /\ LET r == SQLiteCreate(conn, calls[g].fk, tables, calls[g].req.table, calls[g].req.data)
             IN  /\ tables' = r.tables
                 /\ calls' = [calls EXCEPT ![g].pc = "done", ![g].err = r.err]
          /\ free' = Append(free, calls[g].fk)
    /\ UNCHANGED <<dbType, conn, fkOn, docs, last, rlVars>>

\* SQLiteCollection.DeleteById on the connection the call holds
ConcDeleteById ==
    /\ \E g \in Callers :
          /\ calls[g].pc = "conn"
          /\ calls[g].req.op = "DeleteById"
          /\ LET r == SQLiteDeleteById(conn, calls[g].fk, tables, calls[g].req.table, calls[g].req.id)
             IN  /\ tables' = r.tables
                 /\ calls' = [calls EXCEPT ![g].pc = "done", ![g].err = r.err]
          /\ free' = Append(free, calls[g].fk)
    /\ UNCHANGED <<dbType, conn, fkOn, docs, last, rlVars>>

\* SQLiteDatabase.Seed, first statement: the count of the users table
ConcSeedCount ==
    /\ \E g \in Callers :
          /\ calls[g].pc = "conn"
          /\ calls[g].req.op = "Seed"
          /\ LET n == SeedCount(conn, tables)
             IN  calls' = [calls EXCEPT
                              ![g].pc = IF n.err = OK /\ n.count = 0 THEN "counted" ELSE "done",
                              ![g].err = n.err]
          /\ free' = Append(free, calls[g].fk)
    /\ UNCHANGED <<dbVars, rlVars>>

\* SQLiteDatabase.Seed, second statement: the insert of the admin user
ConcSeedInsert ==
    /\ \E g \in Callers :
          /\ calls[g].pc = "conn2"
          /\ LET r == SeedInsert(conn, calls[g].fk, tables)
             IN  /\ tables' = r.tables
                 /\ calls' = [calls EXCEPT ![g].pc = "done", ![g].err = r.err]
          /\ free' = Append(free, calls[g].fk)
    /\ UNCHANGED <<dbType, conn, fkOn, docs, last, rlVars>>

ConcNext == AcquireConn \/ ConcCreate \/ ConcDeleteById \/ ConcSeedCount \/ ConcSeedInsert

ConcSpec == ConcInit /\ [][ConcNext]_vars

(***************************************************************************)
(* The rate limiter (middleware.go:98-150).  Time is counted in ticks;     *)
(* clients is the map from client IP to the recorded timestamps, kept as a *)
(* set of [ip, stamps] entries with distinct ips.  A request takes the     *)
(* mutex, reads the clock, and is answered (handler included) before the   *)
(* deferred Unlock runs.                                                   *)
(***************************************************************************)
MaxLimit == 2           \* largest limit a limiter is constructed with
MaxWindow == 1          \* largest window, in ticks
MaxRequests == 3        \* requests that arrive
MaxClock == 2           \* ticks the clock advances

IPs == {"127.0.0.1", "192.168.1.1"}

StatusOK == 200

StatusTooManyRequests == 429

HasClient(cl, ip) == \E e \in cl : e.ip = ip

\* m.clients[ip]: the zero value (no timestamps) when the map has no entry
Stamps(cl, ip) == IF HasClient(cl, ip) THEN (CHOOSE e \in cl : e.ip = ip).stamps ELSE << >>

\* m.clients[ip] = stamps
PutClient(cl, ip, stamps) == {e \in cl : e.ip # ip} \cup {[ip |-> ip, stamps |-> stamps]}

\* variant: the request is blocked only when the count exceeds the limit
RateLimiter_over(cl, ip, now, lim, win) ==
    LET validRequests == SelectSeq(Stamps(cl, ip), LAMBDA timestamp : now - timestamp <= win)
    IN  IF Len(validRequests) > lim
        THEN [status |-> StatusTooManyRequests, clients |-> PutClient(cl, ip, validRequests)]
        ELSE [status |-> StatusOK, clients |-> PutClient(cl, ip, Append(validRequests, now))]

\* variant: timestamps outside the window are kept
RateLimiter_keep(cl, ip, now, lim, win) ==
    LET validRequests == Stamps(cl, ip)
    IN  IF Len(validRequests) >= lim
        THEN [status |-> StatusTooManyRequests, clients |-> PutClient(cl, ip, validRequests)]
        ELSE [status |-> StatusOK, clients |-> PutClient(cl, ip, Append(validRequests, now))]

\* middleware.go:124-148, the body run under the mutex for a request of ip at time now:
\* the response status and the map afterwards
RateLimiter(cl, ip, now, lim, win) ==
    LET validRequests == SelectSeq(Stamps(cl, ip), LAMBDA timestamp : now - timestamp <= win)
    IN  IF Len(validRequests) >= lim
        THEN [status |-> StatusTooManyRequests, clients |-> PutClient(cl, ip, validRequests)]
        ELSE [status |-> StatusOK, clients |-> PutClient(cl, ip, Append(validRequests, now))]

\* NewRateLimiterMiddleware(log, limit, window): an empty map, the mutex unlocked
RLInit ==
    /\ limit \in 1..MaxLimit
    /\ window \in 1..MaxWindow
    /\ clients = {}
    /\ clock = 0
    /\ mu = 0
    /\ reqs = << >>
    /\ dbType = "none"
    /\ conn = "nil"
    /\ fkOn = FALSE
    /\ tables = NoTables
    /\ docs = {}
    /\ last = Call("none", "", OK)
    /\ NoCallers

\* a request of some client reaches the middleware
Arrive ==
    /\ Len(reqs) < MaxRequests
    /\ \E ip \in IPs :
          reqs' = Append(reqs, [ip |-> ip, pc |-> "arrived", at |-> 0, status |-> 0])
    /\ UNCHANGED <<limit, window, clients, clock, mu, dbVars, concVars>>

\* m.mu.Lock(); now := time.Now()
Lock ==
    /\ mu = 0
    /\ \E r \in 1..Len(reqs) :
          /\ reqs[r].pc = "arrived"
          /\ mu' = r
          /\ reqs' = [reqs EXCEPT ![r].pc = "locked", ![r].at = clock]
    /\ UNCHANGED <<limit, window, clients, clock, dbVars, concVars>>

\* the body of the handler function, then the deferred m.mu.Unlock()
Serve ==
    /\ mu # 0
    /\ LET res == RateLimiter(clients, reqs[mu].ip, reqs[mu].at, limit, window)
       IN  /\ clients' = res.clients
           /\ reqs' = [reqs EXCEPT ![mu].pc = "done", ![mu].status = res.status]
    /\ mu' = 0
    /\ UNCHANGED <<limit, window, clock, dbVars, concVars>>

\* time passes
Tick ==
    /\ clock < MaxClock
    /\ clock' = clock + 1
    /\ UNCHANGED <<limit, window, clients, mu, reqs, dbVars, concVars>>

RLNext == Arrive \/ Lock \/ Serve \/ Tick

RLSpec == RLInit /\ [][RLNext]_vars

(***************************************************************************)
(* Vocabulary of the properties.                                           *)
(***************************************************************************)
Connected == conn = "open"

OnSQLite == dbType = SQLite /\ Connected /\ Migrated(tables)

OnFirestore == dbType = Firestore /\ Connected

\* every field of the record holds a non-zero value
AllNonZero(data) ==
    IsStruct(data) /\ \A n \in DOMAIN data.f : ~isZeroOfUnderlyingType(data.f[n])

\* a and b agree on every field that is non-zero in a
EqualOnNonZero(a, b) ==
    \A n \in DOMAIN a.f : ~isZeroOfUnderlyingType(a.f[n]) => b.f[n] = a.f[n]

\* the filter names only columns of the table
ValidFilter(table, filter) == \A e \in filter : e[1] \in ColumnNames(table)

\* a stored row satisfies a filter entry when the column holds the entry's value
RowMatches(row, filter) == \A e \in filter : row[e[1]] = Bind(e[2])

MatchingRows(table, filter) == SelectSeq(tables[table], LAMBDA r : RowMatches(r, filter))

DocMatches(d, filter) == \A e \in filter : e \in d.data

\* C1: on the relational backend, a successful Create(r) of a record whose fields are
\* all non-zero, followed by GetById(r.ID) into a fresh record, succeeds and returns a
\* record equal to r on every field (string, boolean and time-typed alike).  Stated for
\* the connection that enforces foreign keys, so that the stored record has its parents.
RoundTripAllFields ==
    (OnSQLite /\ fkOn) => \A in \in SqlCreateInputs :
        LET c == SQLiteCreate(conn, fkOn, tables, in[1], in[2])
            g == SQLiteGetById(conn, c.tables, in[1], c.id, Fresh(in[2].type))
        IN  (AllNonZero(in[2]) /\ c.err = OK) =>
                (g.err = OK /\ EqualOnNonZero(in[2], g.out[1]))

\* C2: in every state of the relational backend, GetAllByCondition with two filter
\* entries (naming columns of the table) returns exactly the stored rows that match both
\* entries, and with an empty filter it returns every stored row.
FilterConjunction ==
    OnSQLite =>
        \A table \in TableNames : \A filter \in SqlFilters(table) : \A results \in Slices(ResultType(table)) :
            LET g == SQLiteGetAllByCondition(conn, tables, table, filter, results)
                rows == MatchingRows(table, filter)
            IN  (ValidFilter(table, filter) /\ Cardinality(filter) \in {0, 2}) =>
                    /\ g.err = OK
                    /\ g.out = [i \in 1..Len(rows) |->
                                   mapRowToStruct(table, rows[i], Fresh(ResultType(table)))]
                    /\ (filter = {} => Len(g.out) = Len(tables[table]))

\* a two-entry filter was evaluated over a table holding a row that matches both entries
\* and a row that matches only one of them
FilterConjunctionWitness ==
    /\ OnSQLite
    /\ last = Call("GetAllByCondition", "", OK)
    /\ \E f \in SqlFilters("reminders") :
          /\ Cardinality(f) = 2
          /\ Len(MatchingRows("reminders", f)) = 1
          /\ \E e \in f : Len(MatchingRows("reminders", {e})) = 2

\* C3: on both backends, in every state and for every filter, a successful Count(filter)
\* equals the number of elements GetAllByCondition(filter) yields into an initially
\* empty output sequence in the same state.
CountConsistency ==
    /\ dbType = SQLite =>
          \A table \in TableNames : \A filter \in SqlFilters(table) :
              LET n == SQLiteCount(conn, tables, table, filter)
                  g == SQLiteGetAllByCondition(conn, tables, table, filter, NewSlice(ResultType(table)))
              IN  /\ (n.err = OK) <=> (g.err = OK)
                  /\ n.err = OK => n.n = Len(g.out)
    /\ dbType = Firestore =>
          \A filter \in DocFilters :
              LET n == FirestoreCount(conn, docs, filter)
                  g == FirestoreGetAllByCondition(conn, docs, filter, NewSlice("TestItem"))
              IN  /\ (n.err = OK) <=> (g.err = OK)
                  /\ n.err = OK => n.n = Len(g.out)

\* Count succeeded in a state where some filter selects some but not all of the records
CountConsistencyWitness ==
    /\ last = Call("Count", "", OK)
    /\ \/ /\ OnSQLite
          /\ \E f \in SqlFilters("reminders") :
                Len(MatchingRows("reminders", f)) \in 1..(Len(tables.reminders) - 1)
       \/ /\ OnFirestore
          /\ \E f \in DocFilters :
                Cardinality({d \in docs : DocMatches(d, f)}) \in 1..(Cardinality(docs) - 1)

\* the record can be inserted as far as its own shape goes: it is a struct whose non-zero
\* fields name columns of the table and supply every column that is NOT NULL without default
Insertable(table, data) ==
    /\ IsStruct(data)
    /\ LET cols == Range(extractFieldsForInsert(data, "id").columns)
       IN  /\ cols # {}
           /\ cols \subseteq ColumnNames(table)
           /\ \A c \in ColumnNames(table) :
                 (ColumnOf(table, c).notnull /\ ColumnOf(table, c).default = Null) => c \in cols

\* a stored row already holds the value the record carries in a column declared unique
Clashes(table, data) ==
    LET ex == extractFieldsForInsert(data, "id")
    IN  \E i \in 1..Len(ex.columns) :
            /\ ex.columns[i] \in ColumnNames(table)
            /\ ColumnOf(table, ex.columns[i]).unique
            /\ \E r \in Range(tables[table]) : r[ex.columns[i]] = Bind(ex.values[i])

\* C4: on the relational backend, when a stored row holds value v in a column declared
\* unique (id, users.username, users.email), Create of an otherwise insertable record
\* carrying the same v in that column returns Duplicate and stores nothing.
DuplicateOnUnique ==
    OnSQLite =>
        \A in \in SqlCreateInputs :
            LET c == SQLiteCreate(conn, fkOn, tables, in[1], in[2])
            IN  (Insertable(in[1], in[2]) /\ Clashes(in[1], in[2])) =>
                    (c.err = ErrDuplicate /\ c.tables = tables)

\* Create has just returned Duplicate while a user is stored whose username is carried,
\* under another id, by one of the records offered to Create
DuplicateOnUniqueWitness ==
    /\ OnSQLite
    /\ last = Call("Create", "", ErrDuplicate)
    /\ \E r \in Range(tables.users) :
          r["username"] = Bind(U2alice.f["Username"]) /\ r["id"] # Bind(U2alice.f["ID"])

\* C5: on both backends, GetById with an id under which nothing is stored, and GetOne
\* with a filter no stored record satisfies, each return the NotFound error.
SingularLookupNotFound ==
    /\ OnSQLite =>
          \A table \in TableNames :
              /\ \A id \in SqlIds(table) :
                    (\A r \in Range(tables[table]) : r["id"] # Text(id)) =>
                        SQLiteGetById(conn, tables, table, id, Fresh(ResultType(table))).err = ErrNotFound
              /\ \A filter \in SqlFilters(table) :
                    (ValidFilter(table, filter) /\ Len(MatchingRows(table, filter)) = 0) =>
                        SQLiteGetOne(conn, tables, table, filter, Fresh(ResultType(table))).err = ErrNotFound
    /\ OnFirestore =>
          /\ \A id \in DocIds :
                ~HasDoc(docs, id) =>
                    FirestoreGetById(conn, docs, id, Fresh("TestItem")).err = ErrNotFound
          /\ \A filter \in DocFilters :
                (\A d \in docs : ~DocMatches(d, filter)) =>
                    FirestoreGetOne(conn, docs, filter, Fresh("TestItem")).err = ErrNotFound

\* C6: on both backends, GetAllByCondition with a valid filter that no stored record
\* satisfies returns success, yields no element (a fresh output sequence stays empty),
\* and never returns NotFound.
EmptyResultIsSuccess ==
    /\ OnSQLite =>
          \A table \in TableNames : \A filter \in SqlFilters(table) : \A results \in Slices(ResultType(table)) :
              LET g == SQLiteGetAllByCondition(conn, tables, table, filter, results)
              IN  /\ g.err # ErrNotFound
                  /\ (ValidFilter(table, filter) /\ Len(MatchingRows(table, filter)) = 0) =>
                        /\ g.err = OK
                        /\ results = NewSlice(ResultType(table)) => g.out = << >>
    /\ OnFirestore =>
          \A filter \in DocFilters : \A results \in Slices("TestItem") :
              LET g == FirestoreGetAllByCondition(conn, docs, filter, results)
              IN  /\ g.err # ErrNotFound
                  /\ (\A d \in docs : ~DocMatches(d, filter)) =>
                        /\ g.err = OK
                        /\ results = NewSlice("TestItem") => g.out = << >>

\* GetAllByCondition succeeded over a non-empty collection in which one of the filters
\* it is run with matches nothing
EmptyResultIsSuccessWitness ==
    /\ last = Call("GetAllByCondition", "", OK)
    /\ \/ /\ OnSQLite
          /\ \E in \in SqlProbes :
                /\ ValidFilter(in[1], in[2])
                /\ Len(tables[in[1]]) > 0
                /\ Len(MatchingRows(in[1], in[2])) = 0
       \/ /\ OnFirestore
          /\ docs # {}
          /\ \E f \in DocFilters : \A d \in docs : ~DocMatches(d, f)

NoRow(tbls, table, id) == \A r \in Range(tbls[table]) : r["id"] # Text(id)

\* the payload yields at least one assignment, all of them to columns of the table
Assigns(table, data) ==
    /\ IsStruct(data)
    /\ LET set == Range(extractFieldsForUpdate(data).assignments)
       IN  set # {} /\ \A a \in set : a[1] \in ColumnNames(table)

\* C7: on the relational backend, DeleteById with an id under which no row is stored
\* returns NotFound, so a DeleteById repeated after a successful one returns NotFound;
\* UpdateById with such an id and a payload that assigns at least one column returns
\* NotFound; neither changes a stored row.
MissingIdIsNotFound ==
    OnSQLite =>
        /\ \A table \in TableNames : \A id \in SqlIds(table) :
              LET d == SQLiteDeleteById(conn, fkOn, tables, table, id)
              IN  /\ NoRow(tables, table, id) => (d.err = ErrNotFound /\ d.tables = tables)
                  /\ d.err = OK =>
                        SQLiteDeleteById(conn, fkOn, d.tables, table, id).err = ErrNotFound
        /\ \A in \in SqlUpdateInputs : \A id \in SqlIds(in[1]) :
              LET u == SQLiteUpdateById(conn, fkOn, tables, in[1], id, in[2])
              IN  (NoRow(tables, in[1], id) /\ Assigns(in[1], in[2])) =>
                      (u.err = ErrNotFound /\ u.tables = tables)

\* DeleteById has just returned NotFound for an id that is absent while other rows of
\* a table are stored
MissingIdIsNotFoundWitness ==
    /\ OnSQLite
    /\ last.op = "DeleteById"
    /\ last.err = ErrNotFound
    /\ \E table \in TableNames :
          last.id \in SqlIds(table) /\ NoRow(tables, table, last.id) /\ Len(tables[table]) > 0

\* C8: on the document backend, UpdateById with an id under which no document is stored
\* returns success and has no effect: GetById for that id still fails afterwards and
\* Count is unchanged for every filter.
UpdateMissingHasNoEffect ==
    OnFirestore =>
        \A data \in DocUpdateInputs : \A id \in DocIds :
            LET u == FirestoreUpdateById(conn, docs, id, data)
            IN  ~HasDoc(docs, id) =>
                    /\ u.err = OK
                    /\ FirestoreGetById(conn, u.docs, id, Fresh("TestItem")).err # OK
                    /\ \A filter \in DocFilters :
                          FirestoreCount(conn, u.docs, filter).n = FirestoreCount(conn, docs, filter).n

\* C9: on the document backend, DeleteById with an id under which no document is stored
\* returns success and leaves the collection unchanged; after one DeleteById(id) a
\* further DeleteById(id) returns success and changes nothing.
DeleteIsIdempotent ==
    OnFirestore =>
        \A id \in DocIds :
            LET d == FirestoreDeleteById(conn, docs, id)
                again == FirestoreDeleteById(conn, d.docs, id)
            IN  /\ d.err = OK
                /\ ~HasDoc(docs, id) => d.docs = docs
                /\ again.err = OK
                /\ again.docs = d.docs

\* DeleteById has just succeeded for an id that is not stored, other documents being kept
DeleteIsIdempotentWitness ==
    /\ OnFirestore
    /\ last.op = "DeleteById"
    /\ last.err = OK
    /\ ~HasDoc(docs, last.id)
    /\ docs # {}

\* C10: on the relational backend, no stored reminder or reminder group references a
\* user that is not stored, and no stored reminder references a group that is not stored.
ReferentialIntegrity ==
    (dbType = SQLite /\ Migrated(tables)) =>
        \A table \in TableNames : \A fk \in ForeignKeys(table) : \A r \in Range(tables[table]) :
            r[fk.col] # Null => \E p \in Range(tables[fk.parent]) : p["id"] = r[fk.col]

\* payloads of UpdateById on the relational backend, with the table they are applied to
SqlUpdatePayloads ==
    SqlUpdateInputs \cup
    { <<"reminders", Rec("TestReminder", [Title |-> GoStr("buy oat milk")])>>,
      <<"users", Rec("RolePatch", [Role |-> GoStr("admin")])>>,
      <<"users", Rec("TestUser", [ID |-> GoStr("u2"), Role |-> GoStr("admin")])>>,
      <<"reminder_groups", Rec("TestReminderGroup", [Name |-> GoStr("home"), UpdatedAt |-> GoTime(T1)])>> }

\* the columns named by the fields of the record that hold a non-zero value
NonZeroColumns(data) ==
    {fd.tag : fd \in {x \in Range(FieldsOf(data.type)) : ~isZeroOfUnderlyingType(data.f[x.name])}}

\* the value the record carries for a column
CarriedFor(data, col) ==
    data.f[(CHOOSE fd \in Range(FieldsOf(data.type)) : fd.tag = col).name]

DeclaresUpdatedAt(type) == \E fd \in Range(FieldsOf(type)) : fd.name \in {"UpdatedAt", "Updated_at"}

\* what UpdateById leaves outside the addressed row: the other rows and the other tables
SameElsewhere(before, after, table, id) ==
    /\ \A t \in TableNames : Len(after[t]) = Len(before[t])
    /\ \A t \in TableNames : \A i \in 1..Len(before[t]) :
          (t # table \/ before[t][i]["id"] # Text(id)) => after[t][i] = before[t][i]

\* C11 as stated: a successful UpdateById(id, r) on the relational backend sets, in the
\* row with that id, exactly the columns whose field in r is non-zero and leaves every
\* other column of that row, every other row and every other table as it was.
UpdateChangesOnlyNonZero ==
    OnSQLite =>
        \A in \in SqlUpdatePayloads : \A id \in SqlIds(in[1]) :
            LET u == SQLiteUpdateById(conn, fkOn, tables, in[1], id, in[2])
            IN  u.err = OK =>
                    /\ SameElsewhere(tables, u.tables, in[1], id)
                    /\ \A i \in 1..Len(tables[in[1]]) : \A col \in ColumnNames(in[1]) :
                          tables[in[1]][i]["id"] = Text(id) =>
                              u.tables[in[1]][i][col] =
                                  IF col \in NonZeroColumns(in[2])
                                  THEN Bind(CarriedFor(in[2], col))
                                  ELSE tables[in[1]][i][col]

\* C11: a successful UpdateById(id, r) on the relational backend sets, in the row with
\* that id, the columns other than id whose field in r is non-zero, and sets updated_at
\* to the current time when the type of r declares an updated-at field; the id column,
\* every other column of that row, every other row and every other table stay as they were.
UpdateFrame ==
    OnSQLite =>
        \A in \in SqlUpdatePayloads : \A id \in SqlIds(in[1]) :
            LET u == SQLiteUpdateById(conn, fkOn, tables, in[1], id, in[2])
            IN  u.err = OK =>
                    /\ SameElsewhere(tables, u.tables, in[1], id)
                    /\ \A i \in 1..Len(tables[in[1]]) : \A col \in ColumnNames(in[1]) :
                          tables[in[1]][i]["id"] = Text(id) =>
                              u.tables[in[1]][i][col] =
                                  IF col = "updated_at" /\ DeclaresUpdatedAt(in[2].type)
                                  THEN Timestamp(Now)
                                  ELSE IF col # "id" /\ col \in NonZeroColumns(in[2])
                                  THEN Bind(CarriedFor(in[2], col))
                                  ELSE tables[in[1]][i][col]

\* UpdateById has just succeeded on a user: the role is the payload's, the row is stamped,
\* and the username it was created with is still there
UpdateFrameWitness ==
    /\ OnSQLite
    /\ last = Call("UpdateById", "u1", OK)
    /\ \E r \in Range(tables.users) :
          /\ r["id"] = Text("u1")
          /\ r["role"] = Text("admin")
          /\ r["updated_at"] = Timestamp(Now)
          /\ r["username"] = Text("alice")
          /\ r["created_at"] = Timestamp(T1)

\* records and payloads of the document backend that carry an identifier
DU1 == Rec("User", [ID |-> GoStr("d1"), Username |-> GoStr("alice"), Role |-> GoStr("user")])

DocIdRecords == {DU1, I1, I2}

DocIdPayloads ==
    DocUpdateInputs \cup
    { MapData({<<"id", GoStr("d2")>>}),
      Rec("User", [ID |-> GoStr("d2"), Username |-> GoStr("alice"), Role |-> GoStr("admin")]),
      Item("d2", "pen", "10", "") }

DocNames(coll) == {d.id : d \in coll}

\* the identifier columns of a table, row by row
IdColumn(rows) == [i \in 1..Len(rows) |-> rows[i]["id"]]

\* C12: on both backends no UpdateById, whatever its id argument and payload, changes the
\* identifier under which a record is stored or the identifier GetById and
\* GetAllByCondition report for it.
IdentifierImmutable ==
    /\ OnSQLite =>
          \A in \in SqlUpdatePayloads : \A id \in SqlIds(in[1]) :
              LET u == SQLiteUpdateById(conn, fkOn, tables, in[1], id, in[2])
              IN  \A t \in TableNames : IdColumn(u.tables[t]) = IdColumn(tables[t])
    /\ OnFirestore =>
          \A rec \in DocIdRecords : \A data \in DocIdPayloads : \A id \in DocIds :
              LET c == FirestoreCreate(conn, docs, rec)
                  u == FirestoreUpdateById(conn, c.docs, id, data)
                  before == FirestoreGetById(conn, c.docs, c.id, Fresh(rec.type))
                  after == FirestoreGetById(conn, u.docs, c.id, Fresh(rec.type))
                  all(coll) == FirestoreGetAllByCondition(conn, coll, {}, NewSlice(rec.type))
              IN  (c.err = OK /\ u.err = OK /\ before.err = OK) =>
                      /\ DocNames(c.docs) \subseteq DocNames(u.docs)
                      /\ after.err = OK => after.out[1].f["ID"] = before.out[1].f["ID"]
                      /\ all(u.docs).err = OK =>
                            {x.f["ID"] : x \in Range(all(c.docs).out)} \subseteq
                                {x.f["ID"] : x \in Range(all(u.docs).out)}

CollectionOps ==
    {"Create", "GetById", "GetOne", "GetAllByCondition", "UpdateById", "DeleteById", "Count"}

\* C13: once Close has been called on a connected Database, every Collection operation
\* that follows fails with ConnectionFailure.
FailFastAfterClose ==
    (conn = "closed" /\ last.op \in CollectionOps) => last.err = ErrDatabaseConnection

\* C14: NewDBManager yields a relational Database for the relational discriminator (given
\* a file path), a document Database for the document discriminator, and for any other
\* discriminator fails with InvalidInput and returns no manager.
ManagerSelection ==
    /\ \A cfg \in Configs :
          LET r == NewDBManager(cfg)
          IN  /\ (cfg.DBType = SQLite /\ cfg.SQLiteFile # "") => r = [err |-> OK, db |-> SQLite]
              /\ cfg.DBType = Firestore => r = [err |-> OK, db |-> Firestore]
              /\ cfg.DBType \notin {SQLite, Firestore} => r = [err |-> ErrInvalidInput, db |-> "none"]
    /\ (last.op = "NewDBManager" /\ last.id \notin {SQLite, Firestore}) =>
          (last.err = ErrInvalidInput /\ dbType = "none")

\* filter keys that are not shaped like an identifier
UnsafeKeys == {"invalid;column"}

\* C15: on the relational backend, GetOne, GetAllByCondition and Count reject a filter
\* holding a key that is not shaped like an identifier with InvalidInput.
UnsafeKeyRejected ==
    OnSQLite =>
        \A table \in TableNames : \A filter \in SqlFilters(table) :
            (\E e \in filter : e[1] \in UnsafeKeys) =>
                /\ SQLiteGetOne(conn, tables, table, filter, Fresh(ResultType(table))).err = ErrInvalidInput
                /\ SQLiteGetAllByCondition(conn, tables, table, filter,
                                           NewSlice(ResultType(table))).err = ErrInvalidInput
                /\ SQLiteCount(conn, tables, table, filter).err = ErrInvalidInput

DatabaseOps == {"Connect", "Close"}

\* C16: every error a Database or Collection operation of either backend returns is one
\* of the five kinds of the taxonomy.
ErrorsAreTaxonomy ==
    (last.op \in CollectionOps \cup DatabaseOps /\ last.err # OK) => last.err \in Taxonomy

\* the value handed to Create is no struct, or carries no usable identifier
BadIdentifier(data) ==
    \/ ~IsStruct(data)
    \/ "ID" \notin DOMAIN data.f
    \/ data.f["ID"][1] # "string"
    \/ data.f["ID"][2] = ""

\* C17: on both backends, Create of a value that is not a struct, or of a record without
\* an identifier field, with a non-string identifier or with an empty identifier, fails
\* with InvalidInput and stores nothing.
CreateRejectsBadIdentifier ==
    /\ OnSQLite =>
          \A in \in SqlCreateInputs :
              LET c == SQLiteCreate(conn, fkOn, tables, in[1], in[2])
              IN  BadIdentifier(in[2]) => (c.err = ErrInvalidInput /\ c.tables = tables)
    /\ OnFirestore =>
          \A data \in DocCreateInputs :
              LET c == FirestoreCreate(conn, docs, data)
              IN  BadIdentifier(data) => (c.err = ErrInvalidInput /\ c.docs = docs)

\* map payloads of UpdateById on the document backend, flat and nested
DocMergePayloads ==
    { MapData({<<"value", GoInt("100")>>, <<"is_active", GoBool("false")>>}),
      MapData({<<"metadata", GoMap({<<"created_by", GoStr("original_user")>>,
                                    <<"version", GoInt("1")>>})>>}),
      MapData({<<"metadata", GoMap({<<"version", GoInt("2")>>})>>}),
      MapData({<<"metadata", GoStr("none")>>, <<"name", GoStr("cap")>>}) }

RECURSIVE Leaves(_)

\* the leaves of a map: <<field path, value>> for every value that is not a map
Leaves(m) ==
    UNION { IF e[2][1] = "map"
            THEN {<<(<<e[1]>>) \o l[1], l[2]>> : l \in Leaves(e[2][2])}
            ELSE {<<(<<e[1]>>), e[2]>>} : e \in m }

IsPrefix(p, q) == Len(p) <= Len(q) /\ SubSeq(q, 1, Len(p)) = p

\* one field path lies on the other
Overlap(p, q) == IsPrefix(p, q) \/ IsPrefix(q, p)

U1norole == User("u1", "alice", "a@x", "pw", "")

R1nodesc == Reminder("r1", "milk", "", "true", "u1", "g1")

SqlEmptyStringInputs ==
    { <<"users", U1norole>>, <<"users", U1nopw>>, <<"reminders", R1nodesc>> }

\* documents that leave a string field empty: the description (tagged omitempty), the
\* name (not tagged omitempty), the password and the email of a user
I2noname == Item("d2", "", "0", "")

DocEmptyStringInputs == {I2, I1b, I2noname, DU1}

\* the string fields, other than the identifier, the record holds empty
EmptyStringFields(data) == {n \in DOMAIN data.f : n # "ID" /\ data.f[n] = GoStr("")}

\* the same record with every empty string field given a value
Filled(data) ==
    [data EXCEPT !.f = [n \in DOMAIN data.f |->
                           IF n \in EmptyStringFields(data) THEN GoStr("x") ELSE data.f[n]]]

\* C19: for a record holding an empty string in some field (and that would be stored if
\* the field carried a value), Create succeeds, and GetById into a fresh record succeeds
\* and reports the field as empty, on the relational and on the document backend.
EmptyStringRoundTrip ==
    /\ OnSQLite => \A in \in SqlEmptyStringInputs :
          LET data == in[2]
              c == SQLiteCreate(conn, fkOn, tables, in[1], data)
              g == SQLiteGetById(conn, c.tables, in[1], data.f["ID"][2], Fresh(data.type))
          IN  (EmptyStringFields(data) # {}
                  /\ SQLiteCreate(conn, fkOn, tables, in[1], Filled(data)).err = OK) =>
                  /\ c.err = OK
                  /\ g.err = OK
                  /\ \A n \in EmptyStringFields(data) : g.out[1].f[n] = GoStr("")
    /\ OnFirestore => \A data \in DocEmptyStringInputs :
          LET c == FirestoreCreate(conn, docs, data)
              g == FirestoreGetById(conn, c.docs, data.f["ID"][2], Fresh(data.type))
          IN  (EmptyStringFields(data) # {}
                  /\ FirestoreCreate(conn, docs, Filled(data)).err = OK) =>
                  /\ c.err = OK
                  /\ g.err = OK
                  /\ \A n \in EmptyStringFields(data) : g.out[1].f[n] = GoStr("")

\* the same statement for the document backend alone
EmptyStringRoundTripDocs ==
    OnFirestore => \A data \in DocEmptyStringInputs :
        LET c == FirestoreCreate(conn, docs, data)
            g == FirestoreGetById(conn, c.docs, data.f["ID"][2], Fresh(data.type))
        IN  EmptyStringFields(data) # {} =>
                /\ c.err = OK
                /\ g.err = OK
                /\ \A n \in EmptyStringFields(data) : g.out[1].f[n] = GoStr("")

\* the same statement for the nullable description column of the reminders table
EmptyStringRoundTripNullable ==
    OnSQLite =>
        LET c == SQLiteCreate(conn, fkOn, tables, "reminders", R1nodesc)
            g == SQLiteGetById(conn, c.tables, "reminders", "r1", Fresh("TestReminder"))
        IN  SQLiteCreate(conn, fkOn, tables, "reminders", Filled(R1nodesc)).err = OK =>
                (c.err = OK /\ g.err = OK /\ g.out[1].f["Description"] = GoStr(""))

\* C20: every Database and Collection operation called with a context whose deadline has
\* elapsed (or that is cancelled) returns an error; none runs under a context that lacks
\* the caller's deadline.
ContextHonoured ==
    (last.op \in CollectionOps \cup DatabaseOps /\ last.ctx = Expired) => last.err # OK

\* the same statement for Connect and Create of the relational backend and Create of the
\* document backend, which hand the caller's context to the driver
ContextHonouredByDriverCalls ==
    (last.op \in {"Connect", "Create"} /\ last.ctx = Expired
        /\ ~(dbType = Firestore /\ last.op = "Connect")) => last.err # OK

\* the Database operations other than Connect and Close
LifecycleOps == {"Ping", "Migrate", "Seed"}

\* the error and the storage every operation of the relational backend yields when it is
\* called on a Database in connection state c
SqlOutcomes(c) ==
    {[err |-> SQLiteDatabasePing(c), tables |-> tables],
     SQLiteDatabaseMigrate(c, tables), SQLiteDatabaseSeed(c, fkOn, tables)}
    \cup {[err |-> r.err, tables |-> r.tables] : r \in
            {SQLiteCreate(c, fkOn, tables, in[1], in[2]) : in \in SqlCreateInputs}
            \cup {SQLiteUpdateById(c, fkOn, tables, "users", "u1", in[2]) : in \in SqlUpdateInputs}
            \cup {SQLiteGetById(c, tables, "users", "u1", Fresh("TestUser")),
                  SQLiteGetOne(c, tables, "users", {}, Fresh("TestUser")),
                  SQLiteGetAllByCondition(c, tables, "users", {}, NewSlice("TestUser")),
                  SQLiteDeleteById(c, fkOn, tables, "users", "u1"),
                  SQLiteCount(c, tables, "users", {})}}

\* the same for the document backend
DocOutcomes(c) ==
    {[err |-> FirestoreDatabasePing(c), docs |-> docs],
     [err |-> FirestoreDatabaseMigrate(c), docs |-> docs],
     [err |-> FirestoreDatabaseSeed(c), docs |-> docs]}
    \cup {[err |-> r.err, docs |-> r.docs] : r \in
            {FirestoreCreate(c, docs, data) : data \in DocCreateInputs}
            \cup {FirestoreUpdateById(c, docs, "d1", data) : data \in DocUpdateInputs}
            \cup {FirestoreGetById(c, docs, "d1", Fresh("TestItem")),
                  FirestoreGetOne(c, docs, {}, Fresh("TestItem")),
                  FirestoreGetAllByCondition(c, docs, {}, NewSlice("TestItem")),
                  FirestoreDeleteById(c, docs, "d1"),
                  FirestoreCount(c, docs, {})}}

\* C21: while the Database has never connected successfully, Ping, Migrate, Seed and
\* every Collection operation return an error (they neither succeed nor crash) and leave
\* the storage as it is.
UninitializedFailsSafely ==
    conn = "nil" =>
        /\ dbType = SQLite =>
              \A r \in SqlOutcomes("nil") : r.err \notin {OK, Panic} /\ r.tables = tables
        /\ dbType = Firestore =>
              \A r \in DocOutcomes("nil") : r.err \notin {OK, Panic} /\ r.docs = docs

\* the same statement without Migrate and Seed
UninitializedCollectionsFailSafely ==
    conn = "nil" =>
        /\ dbType = SQLite =>
              \A r \in SqlOutcomes("nil") \ {SQLiteDatabaseMigrate("nil", tables),
                                             SQLiteDatabaseSeed("nil", fkOn, tables)} :
                  r.err \notin {OK, Panic} /\ r.tables = tables
        /\ dbType = Firestore =>
              \A r \in DocOutcomes("nil") \ {[err |-> OK, docs |-> docs]} :
                  r.err \notin {OK, Panic} /\ r.docs = docs

\* C22: on the relational backend, Connect on a Database that was closed succeeds and
\* returns it to the connected state: Ping succeeds, and the Collection operations succeed
\* and see every row that was stored before the Close.
ReconnectRestores ==
    (dbType = SQLite /\ conn = "closed") =>
        LET r == SQLiteDatabaseConnect(Background, conn, fkOn)
        IN  /\ r.err = OK
            /\ r.conn = "open"
            /\ SQLiteDatabasePing(r.conn) = OK
            /\ Migrated(tables) => \A table \in TableNames :
                  LET g == SQLiteGetAllByCondition(r.conn, tables, table, {},
                                                   NewSlice(ResultType(table)))
                      n == SQLiteCount(r.conn, tables, table, {})
                  IN  /\ g.err = OK
                      /\ g.out = [i \in 1..Len(tables[table]) |->
                                     mapRowToStruct(table, tables[table][i],
                                                    Fresh(ResultType(table)))]
                      /\ n.err = OK /\ n.n = Len(tables[table])
                      /\ \A id \in SqlIds(table) :
                            ~NoRow(tables, table, id) =>
                                SQLiteGetById(r.conn, tables, table, id,
                                              Fresh(ResultType(table))).err = OK

\* Close has just returned on a Database that holds a user and a reminder
ReconnectRestoresWitness ==
    /\ dbType = SQLite
    /\ conn = "closed"
    /\ last.op = "Close"
    /\ Migrated(tables)
    /\ Len(tables.users) > 0
    /\ Len(tables.reminders) > 0

\* C29: on both backends, a Connect that returns an error on a Database that never
\* connected leaves it without a handle, so that Ping, Migrate, Seed and every Collection
\* operation afterwards behave as they do on a Database Connect was never called on.
FailedConnectLeavesNoHandle ==
    conn = "nil" =>
        /\ dbType = SQLite => \A ctx \in Contexts :
              LET r == SQLiteDatabaseConnect(ctx, conn, fkOn)
              IN  r.err # OK => (r.conn = "nil" /\ SqlOutcomes(r.conn) = SqlOutcomes("nil"))
        /\ dbType = Firestore => \A ctx \in Contexts : \A env \in FirestoreEnvs :
              LET r == FirestoreDatabaseConnect(ctx, env, conn)
              IN  r.err # OK => (r.conn = "nil" /\ DocOutcomes(r.conn) = DocOutcomes("nil"))

\* the same statement for the relational backend alone, on the call that was made
FailedConnectLeavesNoHandleSQLite ==
    (dbType = SQLite /\ last.op = "Connect" /\ last.err # OK) => conn \in {"nil", "closed"}

\* every goroutine's call has returned
AllDone == \A g \in Callers : calls[g].pc = "done"

\* the stored users named admin
AdminRows == SelectSeq(tables.users, LAMBDA r : r["username"] = Text("admin"))

\* C23: Seed is idempotent.  Whatever calls run concurrently, the users table never holds
\* more than one row named admin; once one or more Seed calls, and no other call, have
\* run on an empty users table in any interleaving, the table holds exactly one row, the
\* admin; and Seed on a users table that holds a row inserts nothing.
SeedIdempotent ==
    /\ Len(AdminRows) <= 1
    /\ (AllDone /\ \A g \in Callers : calls[g].req.op = "Seed") =>
          (Len(tables.users) = 1 /\ Len(AdminRows) = 1)
    /\ Len(tables.users) > 0 =>
          \A fk \in BOOLEAN : SQLiteDatabaseSeed(conn, fk, tables).tables = tables

\* two Seed calls both counted an empty table; one inserted the admin, the other's insert
\* was refused
SeedIdempotentWitness ==
    /\ AllDone
    /\ \A g \in Callers : calls[g].req.op = "Seed"
    /\ \E g, h \in Callers : calls[g].err = OK /\ calls[h].err = Untyped
    /\ Len(AdminRows) = 1

\* the requests of a client that have been answered
Answered(ip) == {r \in 1..Len(reqs) : reqs[r].ip = ip /\ reqs[r].pc = "done"}

\* the requests of the set were all taken up within one window
WithinOneWindow(rs) == \A r, q \in rs : reqs[r].at - reqs[q].at <= window

Min(a, b) == IF a < b THEN a ELSE b

RECURSIVE ServeN(_, _, _, _, _, _)
ServeN(cl, ip, now, lim, win, n) ==
    IF n = 0 THEN [clients |-> cl, statuses |-> << >>]
    ELSE LET first == RateLimiter(cl, ip, now, lim, win)
             rest == ServeN(first.clients, ip, now, lim, win, n - 1)
         IN  [clients |-> rest.clients, statuses |-> <<first.status>> \o rest.statuses]

\* C25: once more than one window has passed since every timestamp recorded for a client,
\* the client's next request is allowed (also when its last one was blocked), only the
\* timestamp of that request remains recorded for the client, and of the requests that
\* follow in the new window exactly limit - 1 more are allowed before one is blocked.
WindowExpiry ==
    mu = 0 =>
        \A ip \in IPs : \A now \in clock..(MaxClock + MaxWindow + 1) :
            (/\ Stamps(clients, ip) # << >>
             /\ \A i \in 1..Len(Stamps(clients, ip)) : now - Stamps(clients, ip)[i] > window) =>
                LET first == RateLimiter(clients, ip, now, limit, window)
                    more == ServeN(first.clients, ip, now, limit, window, limit)
                IN  /\ first.status = StatusOK
                    /\ Stamps(first.clients, ip) = <<now>>
                    /\ \A i \in 1..(limit - 1) : more.statuses[i] = StatusOK
                    /\ more.statuses[limit] = StatusTooManyRequests
                    /\ \A other \in IPs \ {ip} :
                          Stamps(first.clients, other) = Stamps(clients, other)

\* a client was blocked, waited for more than a window, and was allowed again; only the
\* timestamp of the allowed request is recorded for it
WindowExpiryWitness ==
    \E ip \in IPs : \E r, q \in Answered(ip) :
        /\ r < q
        /\ reqs[r].status = StatusTooManyRequests
        /\ reqs[q].status = StatusOK
        /\ reqs[q].at - reqs[r].at > window
        /\ Stamps(clients, ip) = <<reqs[q].at>>

\* C26: foreign keys are enforced on whichever pooled connection serves a call.  In every
\* interleaving of concurrent Create and DeleteById calls, a reminder is stored only
\* while the user its user_id names is stored: Create of a reminder naming no stored
\* user is rejected, and DeleteById of a user removes the user's reminders.
PoolEnforcesForeignKeys ==
    \A r \in Range(tables.reminders) : HasRowWith(tables.users, "id", r["user_id"])

\* on the connection that ran the PRAGMA the rules hold: a call served by it neither
\* stores a reminder without its user nor deletes a user without the user's reminders
PragmaConnectionEnforces ==
    \A table \in {"users", "reminders"} : \A data \in {U1, R1u1} : \A id \in {"u1", "u2"} :
        LET c == SQLiteCreate(conn, TRUE, tables, table, data)
            d == SQLiteDeleteById(conn, TRUE, tables, table, id)
            kept(tbls) == \A r \in Range(tbls.reminders) : HasRowWith(tbls.users, "id", r["user_id"])
        IN  kept(tables) => (kept(c.tables) /\ kept(d.tables))

\* the goroutines whose call is Create on the users table; their records all carry the
\* username alice, and two of them the identifier u1 or u2 as well
UserCreators == {g \in Callers : calls[g].req.op = "Create" /\ calls[g].req.table = "users"}

\* the stored users named alice
AliceRows == SelectSeq(tables.users, LAMBDA r : r["username"] = Text("alice"))

\* C27: concurrent Create calls whose records carry the same identifier or the same
\* value in a unique column.  In every interleaving the table never holds two rows with
\* the value, and once two or more such calls have returned (no DeleteById running
\* beside them) exactly one returned success, every other returned Duplicate, and the
\* table holds exactly one row with the value.
ConcurrentCreateOneWins ==
    /\ Len(AliceRows) <= 1
    /\ (/\ AllDone
        /\ Cardinality(UserCreators) >= 2
        /\ \A g \in Callers : calls[g].req.op # "DeleteById") =>
          /\ Cardinality({g \in UserCreators : calls[g].err = OK}) = 1
          /\ \A g \in UserCreators : calls[g].err \in {OK, ErrDuplicate}
          /\ Len(AliceRows) = 1

\* two Create calls with the same username under two identifiers have returned: one
\* succeeded, the other was refused as Duplicate, and the winner's row is the one stored
ConcurrentCreateOneWinsWitness ==
    /\ AllDone
    /\ \E g, h \in UserCreators :
          /\ calls[g].req.data = U1 /\ calls[h].req.data = U2alice
          /\ calls[g].err = ErrDuplicate /\ calls[h].err = OK
    /\ Len(tables.users) = 1
    /\ tables.users[1]["id"] = Text("u2")

\* UpdateById payloads, one of them a username another stored user may carry
SqlErrorPayloads == SqlUpdatePayloads \cup {<<"users", Rec("TestUser", [Username |-> GoStr("alice")])>>}

\* C28: on the relational backend a Collection operation that returns an error leaves the
\* rows of every table as they were before the call.  In particular a Create refused as
\* Duplicate leaves the stored record as it was, and an UpdateById whose record yields no
\* assignment changes nothing.
ErrorsLeaveRowsUnchanged ==
    dbType = SQLite =>
        /\ \A in \in SqlCreateInputs : \A ctx \in Contexts :
              LET r == SQLiteCreateCtx(ctx, conn, fkOn, tables, in[1], in[2])
              IN  r.err # OK => r.tables = tables
        /\ \A in \in SqlErrorPayloads : \A id \in SqlIds(in[1]) :
              LET r == SQLiteUpdateById(conn, fkOn, tables, in[1], id, in[2])
              IN  /\ r.err # OK => r.tables = tables
                  /\ (IsStruct(in[2]) /\ Len(extractFieldsForUpdate(in[2]).assignments) = 0) =>
                        r.tables = tables
        /\ \A table \in TableNames : \A id \in SqlIds(table) :
              LET r == SQLiteDeleteById(conn, fkOn, tables, table, id)
              IN  r.err # OK => r.tables = tables
        /\ \A table \in TableNames : \A id \in SqlIds(table) : \A filter \in SqlFilters(table) :
              /\ SQLiteGetById(conn, tables, table, id, Fresh(ResultType(table))).tables = tables
              /\ SQLiteGetOne(conn, tables, table, filter, Fresh(ResultType(table))).tables = tables
              /\ SQLiteGetAllByCondition(conn, tables, table, filter,
                                         NewSlice(ResultType(table))).tables = tables
              /\ SQLiteCount(conn, tables, table, filter).tables = tables

\* with alice and bob stored, the calls that fail do fail, each in its own way: Create of
\* alice's record again is Duplicate, UpdateById of bob to alice's username is Duplicate,
\* UpdateById without an assignment is Internal, DeleteById of an unknown id is NotFound
ErrorsLeaveRowsUnchangedWitness ==
    /\ OnSQLite
    /\ last.op = "Create" /\ last.err = ErrDuplicate
    /\ Len(tables.users) = 2
    /\ SQLiteCreate(conn, fkOn, tables, "users", U2alice).err = ErrDuplicate
    /\ SQLiteUpdateById(conn, fkOn, tables, "users", "u2",
                        Rec("TestUser", [Username |-> GoStr("alice")])).err = ErrDuplicate
    /\ SQLiteUpdateById(conn, fkOn, tables, "users", "u1", Fresh("RolePatch")).err = ErrInternal
    /\ SQLiteDeleteById(conn, fkOn, tables, "users", "u9").err = ErrNotFound

\* C30: on the document backend Create is an upsert addressed by the record's identifier.
\* Create of a record whose identifier names a stored document succeeds, returns that
\* identifier, leaves the number of documents and every other document unchanged, and
\* the document at the identifier then holds exactly the labels and values produced
\* from the new record: labels of the old document that the record omits are gone.
CreateIsUpsert ==
    OnFirestore =>
        \A data \in DocCreateInputs \cup {DU1} :
            (IsStruct(data) /\ HasDoc(docs, data.f["ID"][2])) =>
                LET id == data.f["ID"][2]
                    r == FirestoreCreate(conn, docs, data)
                IN  /\ r.err = OK
                    /\ r.id = id
                    /\ Cardinality(r.docs) = Cardinality(docs)
                    /\ {d \in r.docs : d.id # id} = {d \in docs : d.id # id}
                    /\ Cardinality({d \in r.docs : d.id = id}) = 1
                    /\ DocAt(r.docs, id).data = structToMap(data).map
                    /\ Labels(DocAt(r.docs, id).data) = Labels(structToMap(data).map)

\* two documents are stored, d1 with a description; Create of a record with the
\* identifier d1 and no description succeeds, and d1 then has no description label
CreateIsUpsertWitness ==
    /\ OnFirestore
    /\ last.op = "Create" /\ last.err = OK
    /\ Cardinality(docs) = 2
    /\ HasDoc(docs, "d1")
    /\ "description" \in Labels(DocAt(docs, "d1").data)
    /\ LET r == FirestoreCreate(conn, docs, I1b)
       IN  /\ r.err = OK
           /\ Cardinality(r.docs) = 2
           /\ "description" \notin Labels(DocAt(r.docs, "d1").data)
           /\ <<"name", GoStr("cap")>> \in DocAt(r.docs, "d1").data
====
